---------------------------- MODULE Spec2Model ----------------------------
(***************************************************************************)
(* Options pricing and P&L tool (streamlit_app.py, options_app.py,         *)
(* options_tool.py): the pricing model, the chain processor, the scenario  *)
(* engine and the formulas of the exported sheets.                         *)
(*                                                                         *)
(* Numbers.  Python floats are modelled as fixed-point integers with three *)
(* decimal digits: 5000 is 5.000.  Money is in thousandths of a dollar,    *)
(* volatilities, times (years), deltas and CDF values in thousandths.      *)
(* Sums and products of money are exact in the model; the last-bit         *)
(* rounding of doubles is not modelled.  The float not-a-number is the     *)
(* value NaN and Python's None is the value None; they are never operands  *)
(* of integer arithmetic: every operation of the code that can meet them   *)
(* goes through the F* operators below, which give them the meaning they   *)
(* have in Python and pandas.                                              *)
(***************************************************************************)
EXTENDS Integers, Sequences, FiniteSets, TLC

VARIABLES
    \* --- the arguments and results of the pricing functions (SpecPricing) ---
    spot, strike, time_to_expiry, volatility, option_type,
    delta_web, delta_app, delta_tool, bs_price, called,
    \* --- the provider's data of the loaded ticker and expiration ---
    calls_raw,           \* get_options_chain: the raw CALL records
    puts_raw,            \* get_options_chain: the raw PUT records
    current_price,       \* st.session_state['current_price']
    \* --- st.session_state of the Streamlit app ---
    expirations,         \* <<>> until Load Expirations has found some
    calls_positions,     \* strike -> [position, entry]
    puts_positions,      \* strike -> [position, entry]
    stock_shares, stock_entry,
    stock_scenario, days_to_scenario, iv_adjustment,
    \* --- what the last run of the main content computed ---
    calls_pnl, puts_pnl, totals,
    \* --- calculate_pnl and the sheet writers called on their own (SpecPnl) ---
    records,             \* the raw chain given to the processor and the writers
    df,                  \* the table passed to calculate_pnl
    pnl,                 \* the table calculate_pnl returned
    sheet,               \* an exported Calls/Puts sheet, as the user edits it
    sheet_tool,          \* a Calls/Puts sheet written by options_tool.py
    raised,              \* the operations that ended in an unhandled exception
    front,               \* the front end that runs: "web", "tool" or "app"
    provider,            \* what the market-data provider answers
    step,                \* how far the front end's run has come
    produced,            \* what the run has produced: table, totals, workbook
    status_var,          \* the status line or message shown last
    app_stock,           \* OptionsApp.stock, the ticker handle
    expiry_combo,        \* the values of the expiration drop-down
    price_label,         \* the price the desktop window shows
    fetches,             \* the background fetch threads of load_expirations
    after_queue,         \* the callbacks posted with root.after
    ticker_var,          \* the text of the ticker entry (window, sidebar)
    expiry_var,          \* the expiration selected in the drop-down
    workbook,            \* the workbook generate_excel wrote last
    session_ticker,      \* st.session_state['ticker']
    selected_expiry,     \* the expiration selected (session state, main's local)
    reruns,              \* the st.rerun() calls since the last user event
    last_edit,           \* the cell edit the user made last in a table
    password,            \* st.secrets["password"], and whether it is there
    authenticated,       \* st.session_state["authenticated"], per session
    password_input,      \* the text of the password box, per session
    screen,              \* what the last run of each session displayed
    argv_expiry,         \* the expiration given on the command line
    choice,              \* what the user typed at the prompt
    fetched_expiry,      \* the expiration the command line tool fetched
    results              \* the calls made of the two table functions

pricing_vars == <<spot, strike, volatility,
                  delta_web, delta_app, delta_tool, bs_price>>

session_vars == <<calls_raw, puts_raw, expirations,
                  calls_positions, puts_positions,
                  stock_shares, stock_entry, calls_pnl, puts_pnl, totals>>

scenario_vars == <<stock_scenario, days_to_scenario, iv_adjustment>>

harness_vars == <<records, df, pnl, sheet, sheet_tool, raised>>

frontend_vars == <<front, provider, step, produced, status_var>>

desktop_vars == <<app_stock, expiry_combo, price_label, fetches, after_queue>>

window_vars == <<ticker_var, expiry_var, workbook>>

page_vars == <<session_ticker, selected_expiry, reruns, last_edit>>

gate_vars == <<password, authenticated, password_input, screen>>

cli_vars == <<argv_expiry, choice, fetched_expiry>>

pure_vars == <<results>>

more_vars == <<window_vars, page_vars, gate_vars, cli_vars, pure_vars>>

front_vars == <<frontend_vars, desktop_vars, more_vars>>

vars == <<pricing_vars, time_to_expiry, option_type, called, current_price,
          session_vars, scenario_vars, harness_vars, front_vars>>

-----------------------------------------------------------------------------
(* Fixed-point unit: three decimal digits.                                 *)
Scale == 10 * 10 * 10

(* float('nan'): what a missing provider field is in the records of        *)
(* DataFrame.to_dict('records') and in the rows of DataFrame.iterrows().   *)
NaN == -999999999

(* Python's None.                                                          *)
None == -999999998

IsNum(x) == x # NaN /\ x # None

(* Integer division rounding toward minus infinity, for any nonzero b.     *)
SDiv(a, b) == IF b > 0 THEN a \div b ELSE (0 - a) \div (0 - b)

Abs(x) == IF x < 0 THEN 0 - x ELSE x

(* Float arithmetic and comparison with NaN: NaN propagates through + - *, *)
(* and every ordered comparison with NaN is False.                         *)
FAdd(a, b) == IF a = NaN \/ b = NaN THEN NaN ELSE a + b
FSub(a, b) == IF a = NaN \/ b = NaN THEN NaN ELSE a - b
FMul(a, b) == IF a = NaN \/ b = NaN THEN NaN ELSE a * b
FGt(a, b) == a # NaN /\ b # NaN /\ a > b
FLt(a, b) == a # NaN /\ b # NaN /\ a < b
FLe(a, b) == a # NaN /\ b # NaN /\ a <= b

(* Python's max(a, b): b if b > a, else a (so max(nan, 0) is nan).         *)
PyMax(a, b) == IF FGt(b, a) THEN b ELSE a

(* A product of two fixed-point numbers, back in fixed point.              *)
MulS(a, b) == SDiv(a * b, Scale)

-----------------------------------------------------------------------------
(* The library functions of the closed form, in fixed point.               *)

RECURSIVE SqrtSearch(_, _, _)
SqrtSearch(n, lo, hi) ==
    IF lo >= hi THEN lo
    ELSE LET mid == (lo + hi + 1) \div 2
         IN IF mid * mid <= n THEN SqrtSearch(n, mid, hi)
            ELSE SqrtSearch(n, lo, mid - 1)

(* math.sqrt(x) for x >= 0: floor of the square root, in fixed point.      *)
Sqrt(x) == SqrtSearch(x * Scale, 0, 40 * Scale)

(* math.log(x) for x > 0: 2 atanh((x-1)/(x+1)), three terms of the series. *)
Ln(x) ==
    LET z  == SDiv((x - Scale) * Scale, x + Scale)
        z3 == MulS(MulS(z, z), z)
        z5 == MulS(MulS(z3, z), z)
    IN 2 * (z + SDiv(z3, 3) + SDiv(z5, 5))

(* math.exp(-x) for small x >= 0: 1 - x + x^2/2.                           *)
ExpNeg(x) == Scale - x + SDiv(MulS(x, x), 2)

(* The standard normal CDF at 0, 0.5, 1, ..., 3.5.                         *)
PhiTable == <<500, 691, 841, 933, 977, 994, 999, 1000>>

PhiPos(x) ==
    IF x >= 3500 THEN Scale
    ELSE LET i  == x \div 500
             lo == PhiTable[i + 1]
             hi == PhiTable[i + 2]
         IN lo + ((hi - lo) * (x % 500)) \div 500

(* normal_cdf(x): linear interpolation of the table, Phi(-x) = 1 - Phi(x). *)
normal_cdf(x) == IF x >= 0 THEN PhiPos(x) ELSE Scale - PhiPos(0 - x)

RISK_FREE_RATE == 45

-----------------------------------------------------------------------------
(* The closed form's try block.                                            *)

(* A float above the square root of the largest float (about 1.3e154):    *)
(* `volatility ** 2` raises OverflowError on it.  The value stands outside *)
(* the fixed-point range and is never an operand of the arithmetic.        *)
Huge == 999999999

(* The exception the computation of d1 raises, "none" if it raises none,   *)
(* in the order Python evaluates the expression: spot / strike divides by  *)
(* zero, math.log rejects a ratio <= 0, volatility ** 2 overflows,         *)
(* math.sqrt rejects a negative time, and the quotient divides by          *)
(* vol * sqrt(T).                                                          *)
D1Exception(s, k, t, v) ==
    CASE k = 0 -> "ZeroDivisionError"
      [] s = 0 \/ (s > 0) # (k > 0) -> "ValueError"
      [] v = Huge -> "OverflowError"
      [] t < 0 -> "ValueError"
      [] v * Sqrt(t) = 0 -> "ZeroDivisionError"
      [] OTHER -> "none"

(* d1 = (log(spot/strike) + (r + 0.5 vol^2) T) / (vol sqrt(T)), when no    *)
(* exception is raised.                                                    *)
D1(s, k, t, v) ==
    LET num == Ln(SDiv(s * Scale, k))
               + MulS(RISK_FREE_RATE + SDiv(MulS(v, v), 2), t)
    IN SDiv(num * Scale * Scale, v * Sqrt(t))

(* d2 = d1 - vol sqrt(T).                                                  *)
D2(s, k, t, v) == D1(s, k, t, v) - MulS(v, Sqrt(t))

DeltaDefault(side) == IF side = "CALL" THEN 500 ELSE -500

DeltaDegenerate(s, k, t, v) == t <= 0 \/ v <= 0 \/ s <= 0 \/ k <= 0

(* Mutant: the guard forgets the spot and strike checks.                   *)
calculate_delta_unguarded(s, k, t, v, side) ==
    IF t <= 0 \/ v <= 0 THEN DeltaDefault(side)
    ELSE IF D1Exception(s, k, t, v) # "none" THEN DeltaDefault(side)
    ELSE IF side = "CALL" THEN normal_cdf(D1(s, k, t, v))
         ELSE normal_cdf(D1(s, k, t, v)) - Scale

(* streamlit_app.calculate_delta: bare except.                             *)
calculate_delta(s, k, t, v, side) ==
    IF DeltaDegenerate(s, k, t, v) THEN DeltaDefault(side)
    ELSE IF D1Exception(s, k, t, v) # "none" THEN DeltaDefault(side)
    ELSE IF side = "CALL" THEN normal_cdf(D1(s, k, t, v))
         ELSE normal_cdf(D1(s, k, t, v)) - Scale

(* Mutant: the PUT branch forgets the "- 1".                               *)
calculate_delta_app_put_unshifted(s, k, t, v, side) ==
    IF DeltaDegenerate(s, k, t, v) THEN DeltaDefault(side)
    ELSE IF D1Exception(s, k, t, v) # "none" THEN DeltaDefault(side)
    ELSE normal_cdf(D1(s, k, t, v))

(* options_app.calculate_delta: the same function.                         *)
calculate_delta_app(s, k, t, v, side) ==
    IF DeltaDegenerate(s, k, t, v) THEN DeltaDefault(side)
    ELSE IF D1Exception(s, k, t, v) # "none" THEN DeltaDefault(side)
    ELSE IF side = "CALL" THEN normal_cdf(D1(s, k, t, v))
         ELSE normal_cdf(D1(s, k, t, v)) - Scale

(* options_tool.calculate_delta catches ValueError and ZeroDivisionError   *)
(* only: any other exception of the try block reaches the caller.          *)
calculate_delta_tool_raises(s, k, t, v, side) ==
    /\ ~DeltaDegenerate(s, k, t, v)
    /\ D1Exception(s, k, t, v) \notin {"none", "ValueError", "ZeroDivisionError"}

(* options_tool.calculate_delta, when it returns.                          *)
calculate_delta_tool(s, k, t, v, side) ==
    IF DeltaDegenerate(s, k, t, v) THEN DeltaDefault(side)
    ELSE IF D1Exception(s, k, t, v) \in {"ValueError", "ZeroDivisionError"}
         THEN DeltaDefault(side)
    ELSE IF side = "CALL" THEN normal_cdf(D1(s, k, t, v))
         ELSE normal_cdf(D1(s, k, t, v)) - Scale

(* The closed-form price before the clamp.                                 *)
ClosedFormPrice(s, k, t, v, side) ==
    LET d1   == D1(s, k, t, v)
        d2   == D2(s, k, t, v)
        disc == ExpNeg(MulS(RISK_FREE_RATE, t))
    IN IF side = "CALL"
       THEN MulS(s, normal_cdf(d1)) - MulS(MulS(k, disc), normal_cdf(d2))
       ELSE MulS(MulS(k, disc), normal_cdf(0 - d2)) - MulS(s, normal_cdf(0 - d1))

(* The value at expiry: max(spot - strike, 0) or max(strike - spot, 0).    *)
IntrinsicValue(s, k, side) ==
    IF side = "CALL" THEN PyMax(FSub(s, k), 0) ELSE PyMax(FSub(k, s), 0)

PriceDegenerate(s, k, v) == v <= 0 \/ s <= 0 \/ k <= 0

(* Mutant: the degenerate-input check comes before the expiry check.       *)
black_scholes_price_degenerate_first(s, k, t, v, side) ==
    IF PriceDegenerate(s, k, v) THEN 0
    ELSE IF t <= 0 THEN IntrinsicValue(s, k, side)
    ELSE IF D1Exception(s, k, t, v) # "none" THEN 0
    ELSE PyMax(ClosedFormPrice(s, k, t, v, side), 0)

(* Mutant: the closed-form price is returned without the clamp.            *)
black_scholes_price_unclamped(s, k, t, v, side) ==
    IF t <= 0 THEN IntrinsicValue(s, k, side)
    ELSE IF PriceDegenerate(s, k, v) THEN 0
    ELSE IF D1Exception(s, k, t, v) # "none" THEN 0
    ELSE ClosedFormPrice(s, k, t, v, side)

(* streamlit_app.black_scholes_price.                                      *)
black_scholes_price(s, k, t, v, side) ==
    IF t <= 0 THEN IntrinsicValue(s, k, side)
    ELSE IF PriceDegenerate(s, k, v) THEN 0
    ELSE IF D1Exception(s, k, t, v) # "none" THEN 0
    ELSE PyMax(ClosedFormPrice(s, k, t, v, side), 0)


-----------------------------------------------------------------------------
(* The chain processor: streamlit_app.process_options_df.                  *)

(* A key the record does not hold: row.get(key, 0) gives the default.      *)
Absent == -999999997

Get(x) == IF x = Absent THEN 0 ELSE x

(* Python's `x or 0`: 0 for None and for zero, x otherwise; NaN is truthy. *)
OrZero(x) == IF x = None \/ x = 0 THEN 0 ELSE x

(* round(x, 2): to the nearest cent, ties to the even cent; round(nan, 2)  *)
(* is nan.                                                                 *)
Round2(x) ==
    IF x = NaN THEN NaN
    ELSE LET q == x \div 10
             r == x % 10
         IN IF r < 5 THEN 10 * q
            ELSE IF r > 5 THEN 10 * (q + 1)
            ELSE IF q % 2 = 0 THEN 10 * q ELSE 10 * (q + 1)

(* int(v) if pd.notna(v) else 0.                                           *)
IntOrZero(v) == IF v = NaN THEN 0 ELSE v

(* A variant of Mid that averages as soon as one side is quoted.           *)
Mid_either_side(bid, ask, last) ==
    IF FGt(bid, 0) \/ FGt(ask, 0) THEN (bid + ask) \div 2 ELSE last

(* (bid + ask) / 2 if bid > 0 and ask > 0 else last.                       *)
Mid(bid, ask, last) ==
    IF FGt(bid, 0) /\ FGt(ask, 0) THEN (bid + ask) \div 2 ELSE last

(* The same line in options_app.create_options_sheet.                      *)
MidApp(bid, ask, last) ==
    IF FGt(bid, 0) /\ FGt(ask, 0) THEN (bid + ask) \div 2 ELSE last

(* The same line in options_tool.create_options_sheet.                     *)
MidTool(bid, ask, last) ==
    IF FGt(bid, 0) /\ FGt(ask, 0) THEN (bid + ask) \div 2 ELSE last

(* calculate_delta called on a strike: on a NaN strike every comparison of *)
(* the guard is False and the closed form gives nan.                       *)
OnStrike(k, value) == IF k = NaN THEN NaN ELSE value

(* A row on which a writer or the chain processor raises: a null strike    *)
(* reaches the `strike <= 0` of calculate_delta, outside its try block.    *)
RowRaises(row) ==
    Get(row.strike) = None /\ FGt(OrZero(Get(row.impliedVolatility)), 0)

ChainRaises(options) == \E i \in 1..Len(options) : RowRaises(options[i])

(* A variant of ProcessRow that calls calculate_delta whatever the implied *)
(* volatility is.                                                          *)
ProcessRow_ungated(row, price, t, side) ==
    LET k    == Get(row.strike)
        bid  == OrZero(Get(row.bid))
        ask  == OrZero(Get(row.ask))
        last == OrZero(Get(row.lastPrice))
        mid  == Mid(bid, ask, last)
        vol  == OrZero(Get(row.volume))
        oi   == OrZero(Get(row.openInterest))
        iv   == OrZero(Get(row.impliedVolatility))
        dlt  == IF iv = NaN \/ k = NaN THEN NaN
                ELSE calculate_delta(price, k, t, iv, side)
    IN [Strike |-> k, Bid |-> bid, Ask |-> ask, Last |-> last, Mid |-> mid,
        Volume |-> IntOrZero(vol), OpenInt |-> IntOrZero(oi), IV |-> iv,
        Delta |-> Round2(dlt), Position |-> 0, Entry |-> Round2(mid)]

ProcessRow(row, price, t, side) ==
    LET k    == Get(row.strike)
        bid  == OrZero(Get(row.bid))
        ask  == OrZero(Get(row.ask))
        last == OrZero(Get(row.lastPrice))
        mid  == Mid(bid, ask, last)
        vol  == OrZero(Get(row.volume))
        oi   == OrZero(Get(row.openInterest))
        iv   == OrZero(Get(row.impliedVolatility))
        dlt  == IF FGt(iv, 0)
                THEN OnStrike(k, calculate_delta(price, k, t, iv, side))
                ELSE 0
    IN [Strike |-> k, Bid |-> bid, Ask |-> ask, Last |-> last, Mid |-> mid,
        Volume |-> IntOrZero(vol), OpenInt |-> IntOrZero(oi), IV |-> iv,
        Delta |-> Round2(dlt), Position |-> 0, Entry |-> Round2(mid)]

(* A variant of process_options_df that returns the rows last to first.    *)
process_options_df_reversed(options, price, t, side) ==
    [i \in 1..Len(options) |->
        ProcessRow(options[Len(options) + 1 - i], price, t, side)]

process_options_df(options, price, t, side) ==
    [i \in 1..Len(options) |-> ProcessRow(options[i], price, t, side)]

-----------------------------------------------------------------------------
(* The scenario engine: streamlit_app.calculate_pnl and the summary.       *)

ContractMultiplier == 100
DefaultVolatility == 300
DaysPerYear == 365

(* A variant of ClipLower0 that does not clip.                              *)
ClipLower0_unclipped(x) == x

(* Series.clip(lower=0): NaN stays NaN.                                    *)
ClipLower0(x) == IF x = NaN THEN NaN ELSE IF x < 0 THEN 0 ELSE x

(* A variant of EffectiveVol that ignores the adjustment.                   *)
EffectiveVol_unadjusted(iv, adj) ==
    IF FGt(iv, 0) THEN iv ELSE DefaultVolatility

(* r['IV'] * (1 + iv_adjustment) if r['IV'] > 0 else 0.3.                  *)
EffectiveVol(iv, adj) ==
    IF FGt(iv, 0) THEN MulS(iv, Scale + adj) ELSE DefaultVolatility

(* The row's scenario value: intrinsic at days <= 0, Black-Scholes above.  *)
ScenValueOf(r, scen, side, days, adj) ==
    IF days <= 0
    THEN IF side = "CALL" THEN ClipLower0(FSub(scen, r.Strike))
         ELSE ClipLower0(FSub(r.Strike, scen))
    ELSE black_scholes_price(scen, r.Strike, (days * Scale) \div DaysPerYear,
                             EffectiveVol(r.IV, adj), side)

(* A variant of PremRcvdOf that does not negate the position.              *)
PremRcvdOf_same_sign(r) ==
    IF FLt(r.Position, 0)
    THEN FMul(FMul(r.Entry, r.Position), ContractMultiplier) ELSE 0

(* A variant of PayoutOf that pays one contract whatever the position.     *)
PayoutOf_one_contract(r, value) == FMul(value, ContractMultiplier)

PremPaidOf(r) ==
    IF FGt(r.Position, 0)
    THEN FMul(FMul(r.Entry, r.Position), ContractMultiplier) ELSE 0

PremRcvdOf(r) ==
    IF FLt(r.Position, 0)
    THEN FMul(FMul(r.Entry, 0 - r.Position), ContractMultiplier) ELSE 0

PayoutOf(r, value) == FMul(FMul(value, r.Position), ContractMultiplier)

PnlRow(r, scen, side, days, adj) ==
    LET value == ScenValueOf(r, scen, side, days, adj)
        paid  == PremPaidOf(r)
        rcvd  == PremRcvdOf(r)
        pay   == PayoutOf(r, value)
    IN [Strike |-> r.Strike, Bid |-> r.Bid, Ask |-> r.Ask, Last |-> r.Last,
        Mid |-> r.Mid, Volume |-> r.Volume, OpenInt |-> r.OpenInt,
        IV |-> r.IV, Delta |-> r.Delta, Position |-> r.Position,
        Entry |-> r.Entry, ScenValue |-> value, PremPaid |-> paid,
        PremRcvd |-> rcvd, Payout |-> pay,
        PnL |-> FAdd(FSub(pay, paid), rcvd)]

calculate_pnl(table, scen, side, days, adj) ==
    [i \in 1..Len(table) |-> PnlRow(table[i], scen, side, days, adj)]

(* The saved positions laid over the processed chain: every row whose      *)
(* strike is a key of the book takes the book's position and entry.        *)
ApplyPositions(table, book) ==
    [i \in 1..Len(table) |->
        IF table[i].Strike \in DOMAIN book
        THEN [table[i] EXCEPT !.Position = book[table[i].Strike].position,
                              !.Entry = book[table[i].Strike].entry]
        ELSE table[i]]

(* Series.sum() of a column over the rows with Position != 0: pandas skips *)
(* NaN (skipna=True).                                                      *)
RECURSIVE SumWithPos(_, _, _)
SumWithPos(table, col, i) ==
    IF i > Len(table) THEN 0
    ELSE (IF table[i].Position # 0 /\ table[i][col] # NaN
          THEN table[i][col] ELSE 0)
         + SumWithPos(table, col, i + 1)

Summary(cpnl, ppnl, scen, shares, entry) ==
    LET paid  == SumWithPos(cpnl, "PremPaid", 1) + SumWithPos(ppnl, "PremPaid", 1)
        rcvd  == SumWithPos(cpnl, "PremRcvd", 1) + SumWithPos(ppnl, "PremRcvd", 1)
        pay   == SumWithPos(cpnl, "Payout", 1) + SumWithPos(ppnl, "Payout", 1)
        opnl  == SumWithPos(cpnl, "PnL", 1) + SumWithPos(ppnl, "PnL", 1)
        stock == (scen - entry) * shares
    IN [total_prem_paid |-> paid, total_prem_rcvd |-> rcvd,
        total_payout |-> pay, options_pnl |-> opnl,
        stock_pnl |-> stock, total_pnl |-> opnl + stock]

(* One run of the main content: process both sides, lay the saved          *)
(* positions over them, value them and sum them.                           *)
RunCalls(craw, price, t, cbook, scen, days, adj) ==
    calculate_pnl(ApplyPositions(process_options_df(craw, price, t, "CALL"), cbook),
                  scen, "CALL", days, adj)

RunPuts(praw, price, t, pbook, scen, days, adj) ==
    calculate_pnl(ApplyPositions(process_options_df(praw, price, t, "PUT"), pbook),
                  scen, "PUT", days, adj)

(* The rows shown in the editor: up to 15 strikes below and above the row  *)
(* nearest the money.                                                      *)
RECURSIVE ArgMinDistance(_, _, _, _)
ArgMinDistance(table, price, i, best) ==
    IF i > Len(table) THEN best
    ELSE IF Abs(table[i].Strike - price) < Abs(table[best].Strike - price)
         THEN ArgMinDistance(table, price, i + 1, i)
         ELSE ArgMinDistance(table, price, i + 1, best)

DisplayRange(table, price) ==
    LET atm_idx   == ArgMinDistance(table, price, 1, 1) - 1
        start_idx == IF atm_idx - 15 > 0 THEN atm_idx - 15 ELSE 0
        end_idx   == IF atm_idx + 16 < Len(table) THEN atm_idx + 16 ELSE Len(table)
    IN (start_idx + 1)..end_idx

(* A variant of BookPut that writes the position under every strike held.  *)
BookPut_every_strike(book, k, v) == [x \in DOMAIN book \cup {k} |-> v]

(* The loop that saves the edited table into the position book.            *)
BookPut(book, k, v) == [x \in DOMAIN book \cup {k} |-> IF x = k THEN v ELSE book[x]]

(* A variant of BookDel that leaves the strike in the book.                *)
BookDel_kept(book, k) == book

BookDel(book, k) == [x \in DOMAIN book \ {k} |-> book[x]]

RECURSIVE SavePositions(_, _, _, _)
SavePositions(edited, rows, i, book) ==
    IF i > Len(edited) THEN book
    ELSE IF i \notin rows THEN SavePositions(edited, rows, i + 1, book)
    ELSE IF edited[i].Position # 0
         THEN SavePositions(edited, rows, i + 1,
                  BookPut(book, edited[i].Strike,
                          [position |-> edited[i].Position, entry |-> edited[i].Entry]))
    ELSE IF edited[i].Strike \in DOMAIN book
         THEN SavePositions(edited, rows, i + 1, BookDel(book, edited[i].Strike))
    ELSE SavePositions(edited, rows, i + 1, book)

EmptyBook == <<>>

(* old_pos != new_pos, a comparison of two dicts: a strike not in the book *)
(* gives {} for old_pos, and an entry that is NaN differs from every       *)
(* entry, NaN included.                                                    *)
PositionDiffers(book, k, new) ==
    \/ k \notin DOMAIN book
    \/ book[k].position # new.position
    \/ book[k].entry # new.entry
    \/ new.entry = NaN

(* A variant of SaveRequestsRerun that is set by every stored position.    *)
RECURSIVE SaveRequestsRerun_always(_, _, _, _)
SaveRequestsRerun_always(edited, rows, i, book) ==
    IF i > Len(edited) THEN FALSE
    ELSE (i \in rows /\ edited[i].Position # 0)
         \/ SaveRequestsRerun_always(edited, rows, i + 1, book)

(* calls_changed, puts_changed: whether the loop that saves the edited     *)
(* table asks for st.rerun().                                              *)
RECURSIVE SaveRequestsRerun(_, _, _, _)
SaveRequestsRerun(edited, rows, i, book) ==
    IF i > Len(edited) THEN FALSE
    ELSE IF i \notin rows THEN SaveRequestsRerun(edited, rows, i + 1, book)
    ELSE IF edited[i].Position # 0
         THEN LET new == [position |-> edited[i].Position,
                          entry |-> edited[i].Entry]
              IN \/ PositionDiffers(book, edited[i].Strike, new)
                 \/ SaveRequestsRerun(edited, rows, i + 1,
                                      BookPut(book, edited[i].Strike, new))
    ELSE IF edited[i].Strike \in DOMAIN book
         THEN TRUE
    ELSE SaveRequestsRerun(edited, rows, i + 1, book)


-----------------------------------------------------------------------------
(* The exported sheets.  A sheet is the cells that matter to its formulas: *)
(* H2 (the stock price at expiry), J2 and K2 (the stock position), the     *)
(* number of its last data row and, for every data row, keyed by its row   *)
(* number, the value cells A (strike), E (mid), H (implied volatility),    *)
(* I (delta), J (position), K (entry) and the values Excel computes for    *)
(* the formula cells: L (premium paid), M (premium received), N (value at  *)
(* expiry), O (payout) and P (P&L), and the totals of row 3.  An error     *)
(* value in a cell is NaN, an empty cell None.                             *)

\* options_app.create_options_sheet: the formulas of a data row
AppPremPaid(J, K) == IF FGt(J, 0) THEN FMul(FMul(K, J), ContractMultiplier) ELSE 0

(* A variant of AppPremRcvd without the IF.                                *)
AppPremRcvd_unconditional(J, K) == FMul(FMul(K, 0 - J), ContractMultiplier)

AppPremRcvd(J, K) == IF FLt(J, 0) THEN FMul(FMul(K, 0 - J), ContractMultiplier) ELSE 0

AppValAtExp(H2, A, side) ==
    IF side = "CALL" THEN PyMax(FSub(H2, A), 0) ELSE PyMax(FSub(A, H2), 0)

AppPayout(N, J) == FMul(FMul(N, J), ContractMultiplier)

AppPnl(O, L, M) == FAdd(FSub(O, L), M)

\* streamlit_app.create_sheet: the formulas of a data row
WebPremPaid(J, K) == IF FGt(J, 0) THEN FMul(FMul(K, J), ContractMultiplier) ELSE 0

WebPremRcvd(J, K) == IF FLt(J, 0) THEN FMul(FMul(K, 0 - J), ContractMultiplier) ELSE 0

WebValAtExp(H2, A, side) ==
    IF side = "CALL" THEN PyMax(FSub(H2, A), 0) ELSE PyMax(FSub(A, H2), 0)

WebPayout(N, J) == FMul(FMul(N, J), ContractMultiplier)

WebPnl(O, L, M) == FAdd(FSub(O, L), M)

\* options_tool.create_options_sheet: the formulas of a data row; this
\* sheet has the value at expiry in column L and the P&L in column M
ToolValAtExp(H2, A, side) ==
    IF side = "CALL" THEN PyMax(FSub(H2, A), 0) ELSE PyMax(FSub(A, H2), 0)

(* A variant of ToolPnl without the contract multiplier.                   *)
ToolPnl_per_share(L, K, J) == FMul(FSub(L, K), J)

ToolPnl(L, K, J) == FMul(FMul(FSub(L, K), J), ContractMultiplier)

(* The number Excel reads in a cell: an empty cell (None was written)      *)
(* counts as 0, an error value stays one.                                  *)
CellNum(x) == IF x = None THEN 0 ELSE x

(* A variant of DataStartRow that puts the first contract on the header   *)
(* row.                                                                    *)
DataStartRow_on_header == 6 - 1

(* The first data row of every sheet.                                      *)
DataStartRow == 6

(* Excel's recalculation of one data row from its value cells A (strike),  *)
(* E (mid), H (implied volatility), I (delta), J (position), K (entry).    *)
RecalcRow(writer, side, H2, c) ==
    LET A == CellNum(c.A)
        J == CellNum(c.J)
        K == CellNum(c.K)
        L == IF writer = "app" THEN AppPremPaid(J, K) ELSE WebPremPaid(J, K)
        M == IF writer = "app" THEN AppPremRcvd(J, K) ELSE WebPremRcvd(J, K)
        N == IF writer = "app" THEN AppValAtExp(H2, A, side)
                               ELSE WebValAtExp(H2, A, side)
        O == IF writer = "app" THEN AppPayout(N, J) ELSE WebPayout(N, J)
        P == IF writer = "app" THEN AppPnl(O, L, M) ELSE WebPnl(O, L, M)
    IN IF writer = "tool"
       THEN [A |-> c.A, E |-> c.E, H |-> c.H, I |-> c.I, J |-> c.J, K |-> c.K,
             L |-> ToolValAtExp(H2, A, side),
             M |-> ToolPnl(ToolValAtExp(H2, A, side), K, J)]
       ELSE [A |-> c.A, E |-> c.E, H |-> c.H, I |-> c.I, J |-> c.J, K |-> c.K,
             L |-> L, M |-> M, N |-> N, O |-> O, P |-> P]

(* =SUM(<col><first>:<last>): Excel reads a range given backwards (an      *)
(* empty chain gives 6:5) as the same cells; text and empty cells, such as *)
(* the header row 5, add nothing, an error value makes the sum an error.   *)
RECURSIVE SumCells(_, _, _, _)
SumCells(rows, col, r, last) ==
    IF r > last THEN 0
    ELSE FAdd(IF r \in DOMAIN rows THEN rows[r][col] ELSE 0,
              SumCells(rows, col, r + 1, last))

(* A variant of ExcelSum that stops one row short.                         *)
ExcelSum_one_row_short(rows, col, first, last) ==
    SumCells(rows, col, first, last - 1)

ExcelSum(rows, col, first, last) ==
    IF first <= last THEN SumCells(rows, col, first, last)
    ELSE SumCells(rows, col, last, first)

(* Excel's recalculation of the sheet: every data row, the stock P&L in L2 *)
(* and the summary cells of row 3.  The sheets of options_tool.py have     *)
(* only the total of column M, in M3, and no stock cells.                  *)
Recalc(sh, side) ==
    LET rows == [r \in DOMAIN sh.rows |->
                    RecalcRow(sh.writer, side, sh.H2, sh.rows[r])]
        L2 == FMul(FSub(sh.H2, CellNum(sh.K2)), CellNum(sh.J2))
        I3 == ExcelSum(rows, "P", DataStartRow, sh.last_row)
    IN IF sh.writer = "tool"
       THEN [sh EXCEPT !.rows = rows,
                       !.M3 = ExcelSum(rows, "M", DataStartRow, sh.last_row)]
       ELSE [sh EXCEPT !.rows = rows,
                       !.L2 = L2,
                       !.C3 = ExcelSum(rows, "L", DataStartRow, sh.last_row),
                       !.E3 = ExcelSum(rows, "M", DataStartRow, sh.last_row),
                       !.G3 = ExcelSum(rows, "O", DataStartRow, sh.last_row),
                       !.I3 = I3,
                       !.K3 = L2,
                       !.M3 = FAdd(I3, L2)]

(* The cells a writer fills before Excel computes the formulas.            *)
BlankSheet(writer, price, n, rows) ==
    [writer |-> writer, H2 |-> price,
     J2 |-> IF writer = "tool" THEN None ELSE 0,
     K2 |-> IF writer = "tool" THEN None ELSE price,
     last_row |-> DataStartRow + n - 1,
     rows |-> rows,
     L2 |-> None, C3 |-> None, E3 |-> None, G3 |-> None, I3 |-> None,
     K3 |-> None, M3 |-> None]

(* options_app.create_options_sheet: written from the raw chain, every     *)
(* position 0 and every entry the mid price.                               *)
create_options_sheet(options, side, price, t) ==
    Recalc(BlankSheet("app", price, Len(options),
        [r \in DataStartRow..(DataStartRow + Len(options) - 1) |->
            LET row  == options[r - DataStartRow + 1]
                k    == Get(row.strike)
                bid  == OrZero(Get(row.bid))
                ask  == OrZero(Get(row.ask))
                last == OrZero(Get(row.lastPrice))
                mid  == MidApp(bid, ask, last)
                iv   == OrZero(Get(row.impliedVolatility))
            IN [A |-> k, E |-> mid,
                H |-> IF iv = NaN THEN 0 ELSE iv,
                I |-> IF FGt(iv, 0)
                      THEN OnStrike(k, calculate_delta_app(price, k, t, iv, side))
                      ELSE 0,
                J |-> 0, K |-> mid]]), side)

(* options_tool.create_options_sheet: the same cells A to K.               *)
create_options_sheet_tool(options, side, price, t) ==
    Recalc(BlankSheet("tool", price, Len(options),
        [r \in DataStartRow..(DataStartRow + Len(options) - 1) |->
            LET row  == options[r - DataStartRow + 1]
                k    == Get(row.strike)
                bid  == OrZero(Get(row.bid))
                ask  == OrZero(Get(row.ask))
                last == OrZero(Get(row.lastPrice))
                mid  == MidTool(bid, ask, last)
                iv   == OrZero(Get(row.impliedVolatility))
            IN [A |-> k, E |-> mid,
                H |-> IF iv = NaN THEN 0 ELSE iv,
                I |-> IF FGt(iv, 0)
                      THEN OnStrike(k, calculate_delta_tool(price, k, t, iv, side))
                      ELSE 0,
                J |-> 0, K |-> mid]]), side)

(* streamlit_app.create_sheet: written from the table of calculate_pnl,    *)
(* with its positions and entries.                                         *)
create_sheet(table, side, price) ==
    Recalc(BlankSheet("web", price, Len(table),
        [r \in DataStartRow..(DataStartRow + Len(table) - 1) |->
            LET row == table[r - DataStartRow + 1]
            IN [A |-> row.Strike, E |-> row.Mid, H |-> row.IV, I |-> row.Delta,
                J |-> row.Position, K |-> row.Entry]]), side)

(* The user types a position into cell J of data row r.                    *)
SheetWithPosition(sh, side, r, p) ==
    Recalc([sh EXCEPT !.rows[r].J = p], side)

(* The user types an entry price into cell K of data row r.                *)
SheetWithEntry(sh, side, r, k) ==
    Recalc([sh EXCEPT !.rows[r].K = k], side)

(* The user types the stock price at expiry into H2.                       *)
SheetWithSettlement(sh, side, h) ==
    Recalc([sh EXCEPT !.H2 = h], side)

(* The user types the stock position into J2 and K2.                       *)
SheetWithStock(sh, side, shares, entry) ==
    Recalc([sh EXCEPT !.J2 = shares, !.K2 = entry], side)

-----------------------------------------------------------------------------
(* The parts of the state a specification does not use stay at these       *)
(* values.                                                                 *)

NotCalled == "not called"

NoTotals == [total_prem_paid |-> 0, total_prem_rcvd |-> 0, total_payout |-> 0,
             options_pnl |-> 0, stock_pnl |-> 0, total_pnl |-> 0]

NoSheet == BlankSheet("none", 0, 0, <<>>)

IdlePricing ==
    /\ spot = 0 /\ strike = 0 /\ volatility = 0
    /\ delta_web = NotCalled /\ delta_app = NotCalled
    /\ delta_tool = NotCalled /\ bs_price = NotCalled

IdleSession ==
    /\ expirations = <<>>
    /\ calls_raw = <<>> /\ puts_raw = <<>>
    /\ calls_positions = EmptyBook /\ puts_positions = EmptyBook
    /\ stock_shares = 0 /\ stock_entry = 0
    /\ calls_pnl = <<>> /\ puts_pnl = <<>> /\ totals = NoTotals

IdleHarness ==
    /\ records = <<>> /\ df = <<>> /\ pnl = <<>> /\ sheet = NoSheet
    /\ sheet_tool = NoSheet /\ raised = {}

NoProvider == [expirations |-> [fails |-> FALSE, dates |-> <<>>],
               chain |-> [fails |-> FALSE, calls |-> <<>>, puts |-> <<>>]]

IdleFrontEnd ==
    /\ front = "none" /\ provider = NoProvider /\ step = "start"
    /\ produced = {} /\ status_var = ""

IdleDesktop ==
    /\ app_stock = "" /\ expiry_combo = <<>> /\ price_label = 0
    /\ fetches = <<>> /\ after_queue = <<>>

(* No workbook written yet.                                                *)
NoWorkbook ==
    [ticker |-> "", expiry |-> "", chain_of |-> "", price |-> 0, listing |-> <<>>]

IdleWindow == ticker_var = "" /\ expiry_var = "" /\ workbook = NoWorkbook

NoEdit == [side |-> "", strike |-> 0, position |-> 0, entry |-> 0]

IdlePage ==
    /\ session_ticker = "" /\ selected_expiry = "" /\ reruns = 0
    /\ last_edit = NoEdit

(* The browser sessions of the page; each has its own session state.       *)
Sessions == {1, 2}

(* st.secrets without a "password" key.                                    *)
NoPassword == [configured |-> FALSE, value |-> ""]

IdleGate ==
    /\ password = NoPassword
    /\ authenticated = [s \in Sessions |-> FALSE]
    /\ password_input = [s \in Sessions |-> ""]
    /\ screen = [s \in Sessions |-> ""]

IdleCli == argv_expiry = "" /\ choice = "" /\ fetched_expiry = ""

IdlePure == results = {}

IdleMore == IdleWindow /\ IdlePage /\ IdleGate /\ IdleCli /\ IdlePure

IdleFront == IdleFrontEnd /\ IdleDesktop /\ IdleMore

-----------------------------------------------------------------------------
(* SpecPricing: the pricing functions applied to inputs drawn from bounded *)
(* sets that hold the degenerate values (zero, negative) of every input.   *)

Sides == {"CALL", "PUT"}
SpotInputs == {-100000, 0, 90000, 100000, 110000}
StrikeInputs == {-100000, 0, 90000, 100000, 110000}
TimeInputs == {-10, 0, 1, 82, 1000}
VolInputs == {-200, 0, 250, 300, 375, Huge}

InitPricing ==
    /\ spot \in SpotInputs
    /\ strike \in StrikeInputs
    /\ time_to_expiry \in TimeInputs
    /\ volatility \in VolInputs
    /\ option_type \in Sides
    /\ delta_web = NotCalled
    /\ delta_app = NotCalled
    /\ delta_tool = NotCalled
    /\ bs_price = NotCalled
    /\ called = {}
    /\ current_price = 0
    /\ stock_scenario = 0 /\ days_to_scenario = 0 /\ iv_adjustment = 0
    /\ IdleSession
    /\ IdleHarness
    /\ IdleFront

CallDeltaWeb ==
    /\ "delta_web" \notin called
    /\ delta_web' = [raised |-> FALSE,
                     value |-> calculate_delta(spot, strike, time_to_expiry,
                                               volatility, option_type)]
    /\ called' = called \cup {"delta_web"}
    /\ UNCHANGED <<front_vars, spot, strike, time_to_expiry, volatility, option_type,
                   delta_app, delta_tool, bs_price,
                   current_price, session_vars, scenario_vars, harness_vars>>

CallDeltaApp ==
    /\ "delta_app" \notin called
    /\ delta_app' = [raised |-> FALSE,
                     value |-> calculate_delta_app(spot, strike, time_to_expiry,
                                                   volatility, option_type)]
    /\ called' = called \cup {"delta_app"}
    /\ UNCHANGED <<front_vars, spot, strike, time_to_expiry, volatility, option_type,
                   delta_web, delta_tool, bs_price,
                   current_price, session_vars, scenario_vars, harness_vars>>

CallDeltaTool ==
    /\ "delta_tool" \notin called
    /\ delta_tool' =
         IF calculate_delta_tool_raises(spot, strike, time_to_expiry,
                                        volatility, option_type)
         THEN [raised |-> TRUE, value |-> 0]
         ELSE [raised |-> FALSE,
               value |-> calculate_delta_tool(spot, strike, time_to_expiry,
                                              volatility, option_type)]
    /\ called' = called \cup {"delta_tool"}
    /\ UNCHANGED <<front_vars, spot, strike, time_to_expiry, volatility, option_type,
                   delta_web, delta_app, bs_price,
                   current_price, session_vars, scenario_vars, harness_vars>>

CallBlackScholes ==
    /\ "bs_price" \notin called
    /\ bs_price' = [raised |-> FALSE,
                    value |-> black_scholes_price(spot, strike, time_to_expiry,
                                                  volatility, option_type)]
    /\ called' = called \cup {"bs_price"}
    /\ UNCHANGED <<front_vars, spot, strike, time_to_expiry, volatility, option_type,
                   delta_web, delta_app, delta_tool,
                   current_price, session_vars, scenario_vars, harness_vars>>

NextPricing == CallDeltaWeb \/ CallDeltaApp \/ CallDeltaTool \/ CallBlackScholes

SpecPricing == InitPricing /\ [][NextPricing]_vars

-----------------------------------------------------------------------------
(* Claims about the pricing functions, checked under SpecPricing.          *)

AnyDegenerate ==
    time_to_expiry <= 0 \/ volatility <= 0 \/ spot <= 0 \/ strike <= 0

AllValid ==
    time_to_expiry > 0 /\ volatility > 0 /\ spot > 0 /\ strike > 0

(* C7: whenever one of time_to_expiry, volatility, spot, strike is <= 0,   *)
(* calculate_delta (streamlit_app, options_tool, options_app) returns      *)
(* exactly +0.5 for CALL and -0.5 for PUT, whatever the other inputs are,  *)
(* and raises nothing.                                                     *)
C7_DeltaFallback ==
    AnyDegenerate =>
        LET want == [raised |-> FALSE,
                     value |-> IF option_type = "CALL" THEN 500 ELSE -500]
        IN /\ "delta_web" \in called => delta_web = want
           /\ "delta_tool" \in called => delta_tool = want
           /\ "delta_app" \in called => delta_app = want

(* C7 witness: spot = 0 with every other input positive, PUT, all three    *)
(* variants called.                                                        *)
C7_Witness ==
    /\ spot = 0 /\ strike > 0 /\ time_to_expiry > 0 /\ volatility > 0
    /\ option_type = "PUT"
    /\ {"delta_web", "delta_tool", "delta_app"} \subseteq called
    /\ delta_web.value = -500

(* C8: for spot, strike, time_to_expiry and volatility all > 0,            *)
(* calculate_delta (streamlit_app, options_app) is in [0, 1] for CALL and  *)
(* in [-1, 0] for PUT.                                                     *)
C8_DeltaBounds ==
    AllValid =>
        /\ "delta_web" \in called =>
              /\ ~delta_web.raised
              /\ IF option_type = "CALL"
                 THEN delta_web.value \in 0..Scale
                 ELSE delta_web.value \in (0 - Scale)..0
        /\ "delta_app" \in called =>
              /\ ~delta_app.raised
              /\ IF option_type = "CALL"
                 THEN delta_app.value \in 0..Scale
                 ELSE delta_app.value \in (0 - Scale)..0

(* C8 witness: a PUT on valid inputs whose delta is strictly inside        *)
(* (-1, 0) and is not the -0.5 default.                                    *)
C8_Witness ==
    /\ AllValid /\ option_type = "PUT"
    /\ {"delta_web", "delta_app"} \subseteq called
    /\ delta_app.value \in (1 - Scale)..(-1)
    /\ delta_app.value # -500
    /\ delta_web.value = delta_app.value

(* C9: with time_to_expiry <= 0, black_scholes_price returns exactly the   *)
(* intrinsic value, max(spot - strike, 0) for CALL and max(strike - spot,  *)
(* 0) for PUT, for every spot, strike and volatility, also non-positive    *)
(* ones.                                                                   *)
C9_ExpiryIntrinsic ==
    (time_to_expiry <= 0 /\ "bs_price" \in called) =>
        /\ ~bs_price.raised
        /\ bs_price.value =
             IF option_type = "CALL"
             THEN (IF spot > strike THEN spot - strike ELSE 0)
             ELSE (IF strike > spot THEN strike - spot ELSE 0)

(* C9 witness: expired, volatility and spot non-positive, and a positive   *)
(* intrinsic value was returned.                                           *)
C9_Witness ==
    /\ time_to_expiry <= 0 /\ volatility <= 0 /\ spot <= 0
    /\ "bs_price" \in called
    /\ bs_price.value > 0

(* C10: black_scholes_price returns a value >= 0 for every combination of  *)
(* inputs and both sides.                                                  *)
C10_PriceNonNegative ==
    "bs_price" \in called => (~bs_price.raised /\ bs_price.value >= 0)

(* C10 witness: the closed form is negative on valid inputs and the        *)
(* returned price is the clamp, 0.                                         *)
C10_Witness ==
    /\ AllValid
    /\ "bs_price" \in called
    /\ volatility < Huge
    /\ ClosedFormPrice(spot, strike, time_to_expiry, volatility, option_type) < 0
    /\ bs_price.value = 0


(* C11: no call of calculate_delta or black_scholes_price with numeric     *)
(* inputs propagates an error to its caller: an arithmetic failure inside  *)
(* the closed form is caught and replaced by the function's default value  *)
(* (+0.5 / -0.5 for the delta, 0 for the price).                           *)
C11_NoErrorPropagates ==
    LET failure == /\ ~DeltaDegenerate(spot, strike, time_to_expiry, volatility)
                   /\ volatility = Huge
    IN /\ "delta_web" \in called =>
              /\ ~delta_web.raised
              /\ failure => delta_web.value =
                               (IF option_type = "CALL" THEN 500 ELSE -500)
       /\ "delta_tool" \in called =>
              /\ ~delta_tool.raised
              /\ failure => delta_tool.value =
                               (IF option_type = "CALL" THEN 500 ELSE -500)
       /\ "bs_price" \in called =>
              /\ ~bs_price.raised
              /\ (failure /\ time_to_expiry > 0) => bs_price.value = 0

(* C11, as far as it holds: the functions of streamlit_app.py and          *)
(* options_app.py, whose except clause is bare, propagate nothing and      *)
(* return their default on an overflow.                                    *)
C11_BareExceptCatchesAll ==
    LET failure == /\ ~DeltaDegenerate(spot, strike, time_to_expiry, volatility)
                   /\ volatility = Huge
    IN /\ "delta_web" \in called =>
              /\ ~delta_web.raised
              /\ failure => delta_web.value =
                               (IF option_type = "CALL" THEN 500 ELSE -500)
       /\ "delta_app" \in called =>
              /\ ~delta_app.raised
              /\ failure => delta_app.value =
                               (IF option_type = "CALL" THEN 500 ELSE -500)
       /\ "bs_price" \in called =>
              /\ ~bs_price.raised
              /\ (failure /\ time_to_expiry > 0) => bs_price.value = 0

(* C11 witness: an overflowing volatility with every other input valid,    *)
(* on which the Streamlit functions returned their defaults.               *)
C11_Witness ==
    /\ volatility = Huge /\ spot > 0 /\ strike > 0 /\ time_to_expiry > 0
    /\ option_type = "PUT"
    /\ {"delta_web", "delta_app", "bs_price"} \subseteq called
    /\ delta_web.value = -500 /\ delta_app.value = -500 /\ bs_price.value = 0

-----------------------------------------------------------------------------
(* SpecPnl: calculate_pnl and the sheet writers applied to tables drawn    *)
(* from bounded sets.  The quotes hold a regular one, one without bid, ask *)
(* and implied volatility, and one whose optional fields are all missing   *)
(* (NaN in the provider's records).                                        *)

MaxRows == 2

QuoteRegular ==
    [strike |-> 100 * Scale, bid |-> 4500, ask |-> 5500, lastPrice |-> 5100,
     volume |-> 10, openInterest |-> 20, impliedVolatility |-> 250]

QuoteNoMarket ==
    [strike |-> 110 * Scale, bid |-> 0, ask |-> 0, lastPrice |-> 3250,
     volume |-> NaN, openInterest |-> NaN, impliedVolatility |-> 0]

QuoteMissing ==
    [strike |-> 90 * Scale, bid |-> NaN, ask |-> NaN, lastPrice |-> NaN,
     volume |-> NaN, openInterest |-> NaN, impliedVolatility |-> NaN]

Quotes == {QuoteRegular, QuoteNoMarket, QuoteMissing}

RawChains == UNION {[1..n -> Quotes] : n \in 1..MaxRows}

Positions == {-1, 0, 2}
EntryInputs == {2 * Scale}
SettlementInputs == {100 * Scale, 110 * Scale}
DaysInputs == {-1, 0, 30}
IvAdjustments == {0, 500}
PriceInputs == {100 * Scale}
ExpiryTimes == {82}

(* The table with the user's positions and entries on it; an entry of None *)
(* is a cell the user did not touch.                                       *)
WithInputs(table, inputs) ==
    [i \in 1..Len(table) |->
        [table[i] EXCEPT !.Position = inputs[i][1],
                         !.Entry = IF inputs[i][2] = None
                                   THEN table[i].Entry ELSE inputs[i][2]]]

InitPnl ==
    /\ option_type \in Sides
    /\ current_price \in PriceInputs
    /\ time_to_expiry \in ExpiryTimes
    /\ records \in RawChains
    /\ \E inputs \in [1..Len(records) -> Positions \X ({None} \cup EntryInputs)] :
          df = WithInputs(process_options_df(records, current_price,
                                             time_to_expiry, option_type), inputs)
    /\ stock_scenario = 0 /\ days_to_scenario = 0 /\ iv_adjustment = 0
    /\ pnl = <<>>
    /\ sheet = NoSheet
    /\ sheet_tool = NoSheet /\ raised = {}
    /\ called = {}
    /\ IdlePricing
    /\ IdleFront
    /\ IdleSession

(* calculate_pnl called on the table, with a scenario of the caller's.     *)
CalculatePnl ==
    /\ "pnl" \notin called
    /\ sheet.writer = "none"
    /\ \E s \in SettlementInputs, d \in DaysInputs, a \in IvAdjustments :
          /\ stock_scenario' = s
          /\ days_to_scenario' = d
          /\ iv_adjustment' = a
          /\ pnl' = calculate_pnl(df, s, option_type, d, a)
    /\ called' = called \cup {"pnl"}
    /\ UNCHANGED <<front_vars, pricing_vars, time_to_expiry, option_type, current_price,
                   session_vars, records, df, sheet, sheet_tool, raised>>

(* The desktop writer, given the raw chain.                                *)
CreateSheetApp ==
    /\ sheet.writer = "none"
    /\ "pnl" \notin called
    /\ sheet' = create_options_sheet(records, option_type, current_price,
                                   time_to_expiry)
    /\ UNCHANGED <<front_vars, pricing_vars, time_to_expiry, option_type, current_price,
                   session_vars, scenario_vars, records, df, pnl, called,
                   sheet_tool, raised>>

(* The download of the Streamlit app, given the table of calculate_pnl.    *)
CreateSheetWeb ==
    /\ sheet.writer = "none"
    /\ "pnl" \in called
    /\ sheet' = create_sheet(pnl, option_type, current_price)
    /\ UNCHANGED <<front_vars, pricing_vars, time_to_expiry, option_type, current_price,
                   session_vars, scenario_vars, records, df, pnl, called,
                   sheet_tool, raised>>

(* The first position the user types into a sheet that holds none.         *)
EditSheetPosition ==
    /\ sheet.writer # "none"
    /\ \A r \in DOMAIN sheet.rows : sheet.rows[r].J = 0
    /\ \E r \in DOMAIN sheet.rows, p \in Positions :
          sheet' = SheetWithPosition(sheet, option_type, r, p)
    /\ UNCHANGED <<front_vars, pricing_vars, time_to_expiry, option_type, current_price,
                   session_vars, scenario_vars, records, df, pnl, called,
                   sheet_tool, raised>>

NextPnl == CalculatePnl \/ CreateSheetApp \/ CreateSheetWeb \/ EditSheetPosition

SpecPnl == InitPnl /\ [][NextPnl]_vars


-----------------------------------------------------------------------------
(* Claims about calculate_pnl and the sheet formulas, checked under        *)
(* SpecPnl.                                                                *)

PnlCalled == "pnl" \in called

PnlRows == IF PnlCalled THEN {pnl[i] : i \in 1..Len(pnl)} ELSE {}

SheetRows == {sheet.rows[r] : r \in DOMAIN sheet.rows}

(* C2: a row of calculate_pnl whose position is 0 has premium paid 0,      *)
(* premium received 0, payout 0 and P&L 0, whatever its entry price, its   *)
(* scenario value, the side and the horizon.                               *)
C2_FlatPositionIsZero ==
    \A r \in PnlRows :
        r.Position = 0 =>
            r.PremPaid = 0 /\ r.PremRcvd = 0 /\ r.Payout = 0 /\ r.PnL = 0

(* C2 witness: a flat row with a positive scenario value before expiry and *)
(* a missing entry price, next to a flat row at a typed entry price.       *)
C2_Witness ==
    /\ days_to_scenario > 0
    /\ \E r \in PnlRows :
          r.Position = 0 /\ r.Entry = NaN /\ FGt(r.ScenValue, 0) /\ r.Payout = 0
    /\ \E r \in PnlRows :
          r.Position = 0 /\ r.Entry \in EntryInputs /\ r.PnL = 0

(* C3: on every row premium paid is nonzero only when the position is > 0  *)
(* and premium received only when it is < 0, so never both; in the table   *)
(* of calculate_pnl and in the IF formulas of the exported sheets.         *)
C3_PremiumSides ==
    /\ \A r \in PnlRows :
          /\ r.PremPaid # 0 => r.Position > 0
          /\ r.PremRcvd # 0 => r.Position < 0
          /\ ~(r.PremPaid # 0 /\ r.PremRcvd # 0)
    /\ \A r \in SheetRows :
          /\ r.L # 0 => r.J > 0
          /\ r.M # 0 => r.J < 0
          /\ ~(r.L # 0 /\ r.M # 0)

(* C3 witness: a table with a long row that paid a premium and a short row *)
(* that received one, written to a sheet whose formulas show the same.     *)
C3_Witness ==
    /\ \E r \in PnlRows : r.Position > 0 /\ FGt(r.PremPaid, 0) /\ r.PremRcvd = 0
    /\ \E r \in PnlRows : r.Position < 0 /\ FGt(r.PremRcvd, 0) /\ r.PremPaid = 0
    /\ \E r \in SheetRows : r.J > 0 /\ FGt(r.L, 0) /\ r.M = 0
    /\ \E r \in SheetRows : r.J < 0 /\ FGt(r.M, 0) /\ r.L = 0

(* C4: at days_to_scenario = 0 the scenario value of a CALL is 0 when      *)
(* strike = settlement, settlement - strike when strike < settlement and 0 *)
(* when strike > settlement; of a PUT 0 when strike = settlement, strike - *)
(* settlement when strike > settlement and 0 when strike < settlement.     *)
C4_IntrinsicAtExpiry ==
    days_to_scenario = 0 =>
        \A r \in PnlRows :
            IF option_type = "CALL"
            THEN /\ r.Strike = stock_scenario => r.ScenValue = 0
                 /\ r.Strike < stock_scenario =>
                        r.ScenValue = stock_scenario - r.Strike
                 /\ r.Strike > stock_scenario => r.ScenValue = 0
            ELSE /\ r.Strike = stock_scenario => r.ScenValue = 0
                 /\ r.Strike > stock_scenario =>
                        r.ScenValue = r.Strike - stock_scenario
                 /\ r.Strike < stock_scenario => r.ScenValue = 0

(* C4 witness: at expiry, a CALL table with one strike at the settlement   *)
(* price (value 0) and one below it (positive value).                      *)
C4_Witness ==
    /\ days_to_scenario = 0 /\ option_type = "CALL"
    /\ \E r \in PnlRows : r.Strike = stock_scenario /\ r.ScenValue = 0
    /\ \E r \in PnlRows : r.Strike < stock_scenario /\ r.ScenValue > 0

(* C5: for a row with a nonzero position, premium paid is entry * position *)
(* * 100 if position > 0 else 0, premium received is entry * (-position) * *)
(* 100 if position < 0 else 0, payout is scenario value * position * 100   *)
(* (<= 0 for a short position) and P&L is payout - paid + received; strike *)
(* 100, entry 5, settlement 110 at days 0 gives P&L 1000 for position +2   *)
(* and P&L -500 (received 500, payout -1000) for position -1.              *)
C5_CashFlows ==
    \A r \in PnlRows :
        r.Position # 0 =>
            /\ r.Payout = r.ScenValue * r.Position * 100
            /\ r.Position < 0 => r.Payout <= 0
            /\ IF r.Entry = NaN
               THEN /\ r.PremPaid = (IF r.Position > 0 THEN NaN ELSE 0)
                    /\ r.PremRcvd = (IF r.Position < 0 THEN NaN ELSE 0)
                    /\ r.PnL = NaN
               ELSE /\ r.PremPaid =
                         (IF r.Position > 0 THEN r.Entry * r.Position * 100 ELSE 0)
                    /\ r.PremRcvd =
                         (IF r.Position < 0 THEN r.Entry * (0 - r.Position) * 100 ELSE 0)
                    /\ r.PnL = r.Payout - r.PremPaid + r.PremRcvd
            /\ ( /\ option_type = "CALL" /\ days_to_scenario = 0
                 /\ r.Strike = 100 * Scale /\ r.Entry = 5 * Scale
                 /\ stock_scenario = 110 * Scale ) =>
                   /\ r.Position = 2 => r.PnL = 1000 * Scale
                   /\ r.Position = -1 =>
                         /\ r.PremRcvd = 500 * Scale
                         /\ r.Payout = (0 - 1000) * Scale
                         /\ r.PnL = (0 - 500) * Scale

(* C5 witness: the CALL at strike 100 entered at 5 and settled at 110 at   *)
(* expiry, held long 2 on one row and short 1 on another.                  *)
C5_Witness ==
    /\ option_type = "CALL" /\ days_to_scenario = 0
    /\ stock_scenario = 110 * Scale
    /\ \E r \in PnlRows :
          r.Strike = 100 * Scale /\ r.Entry = 5 * Scale /\ r.Position = 2
          /\ r.PnL = 1000 * Scale
    /\ \E r \in PnlRows :
          r.Strike = 100 * Scale /\ r.Entry = 5 * Scale /\ r.Position = -1
          /\ r.PnL = (0 - 500) * Scale

(* C6: with days_to_scenario <= 0 every row's scenario value is the        *)
(* intrinsic value at the settlement price; with days_to_scenario > 0 it   *)
(* is black_scholes_price(settlement, strike, days / 365, effective_vol,   *)
(* side), where effective_vol is IV * (1 + iv_adjustment) when the row's   *)
(* IV is > 0 and 0.30 otherwise.                                           *)
C6_RegimeSelection ==
    \A r \in PnlRows :
        IF days_to_scenario <= 0
        THEN r.ScenValue =
                IF option_type = "CALL"
                THEN (IF stock_scenario > r.Strike
                      THEN stock_scenario - r.Strike ELSE 0)
                ELSE (IF r.Strike > stock_scenario
                      THEN r.Strike - stock_scenario ELSE 0)
        ELSE r.ScenValue =
                black_scholes_price(
                    stock_scenario, r.Strike,
                    (days_to_scenario * Scale) \div 365,
                    IF r.IV # NaN /\ r.IV > 0
                    THEN (r.IV * (Scale + iv_adjustment)) \div Scale
                    ELSE 300,
                    option_type)

(* C6 witness: before expiry, with a nonzero adjustment, a row with a      *)
(* known IV next to a row with a missing one, both with a positive value.  *)
C6_Witness ==
    /\ days_to_scenario > 0 /\ iv_adjustment # 0
    /\ \E r \in PnlRows : FGt(r.IV, 0) /\ r.ScenValue > 0
    /\ \E r \in PnlRows : r.IV = NaN /\ r.ScenValue > 0


-----------------------------------------------------------------------------
(* Spec: a session of the Streamlit app.  Every action is one run of the   *)
(* script: the widget the user touched, then the main content, which       *)
(* processes both chains, lays the saved positions over them, values them  *)
(* and sums them.                                                          *)

MaxStrikes == 1

(* The provider lists a chain by ascending strike.                         *)
Chains ==
    {c \in UNION {[1..n -> Quotes] : n \in 1..MaxStrikes} :
        \A i \in 1..(Len(c) - 1) : c[i].strike < c[i + 1].strike}

ShareInputs == {0, 100}
StockEntryInputs == {95 * Scale}
SliderDays == {0, 30}

Init ==
    /\ expirations = <<>>
    /\ calls_raw = <<>> /\ puts_raw = <<>>
    /\ calls_positions = EmptyBook /\ puts_positions = EmptyBook
    /\ stock_shares = 0 /\ stock_entry = 0
    /\ current_price = 0 /\ time_to_expiry = 0
    /\ stock_scenario = 0 /\ days_to_scenario = 0 /\ iv_adjustment = 0
    /\ calls_pnl = <<>> /\ puts_pnl = <<>> /\ totals = NoTotals
    /\ option_type = "CALL"
    /\ called = {}
    /\ IdlePricing
    /\ IdleFront
    /\ IdleHarness

Loaded == expirations # <<>>

(* The main content, run on the session state the script has just set.     *)
MainContent ==
    /\ calls_pnl' = RunCalls(calls_raw', current_price', time_to_expiry',
                             calls_positions', stock_scenario',
                             days_to_scenario', iv_adjustment')
    /\ puts_pnl' = RunPuts(puts_raw', current_price', time_to_expiry',
                           puts_positions', stock_scenario',
                           days_to_scenario', iv_adjustment')
    /\ totals' = Summary(calls_pnl', puts_pnl', stock_scenario',
                         stock_shares', stock_entry')

LoadExpirations ==
    /\ \E c \in Chains, p \in Chains, price \in PriceInputs, t \in ExpiryTimes :
          /\ calls_raw' = c
          /\ puts_raw' = p
          /\ current_price' = price
          /\ time_to_expiry' = t
          /\ stock_entry' = price
          \* the scenario widgets keep what the user set while their
          \* default, the current price, does not change
          /\ IF Loaded /\ current_price = price
             THEN UNCHANGED scenario_vars
             ELSE /\ stock_scenario' = price
                  /\ days_to_scenario' = 0
                  /\ iv_adjustment' = 0
    /\ expirations' = <<"expiry">>
    /\ calls_positions' = EmptyBook
    /\ puts_positions' = EmptyBook
    /\ stock_shares' = 0
    /\ MainContent
    /\ UNCHANGED <<front_vars, pricing_vars, option_type, called, harness_vars>>

SetDaysToScenario ==
    /\ Loaded
    /\ days_to_scenario' \in SliderDays
    /\ UNCHANGED <<front_vars, calls_raw, puts_raw, expirations, current_price,
                   time_to_expiry, calls_positions, puts_positions,
                   stock_shares, stock_entry, stock_scenario, iv_adjustment>>
    /\ MainContent
    /\ UNCHANGED <<front_vars, pricing_vars, option_type, called, harness_vars>>

SetStockScenario ==
    /\ Loaded
    /\ stock_scenario' \in SettlementInputs
    /\ UNCHANGED <<front_vars, calls_raw, puts_raw, expirations, current_price,
                   time_to_expiry, calls_positions, puts_positions,
                   stock_shares, stock_entry, days_to_scenario, iv_adjustment>>
    /\ MainContent
    /\ UNCHANGED <<front_vars, pricing_vars, option_type, called, harness_vars>>

SetIvAdjustment ==
    /\ Loaded
    /\ iv_adjustment' \in IvAdjustments
    /\ UNCHANGED <<front_vars, calls_raw, puts_raw, expirations, current_price,
                   time_to_expiry, calls_positions, puts_positions,
                   stock_shares, stock_entry, stock_scenario, days_to_scenario>>
    /\ MainContent
    /\ UNCHANGED <<front_vars, pricing_vars, option_type, called, harness_vars>>

SetStockShares ==
    /\ Loaded
    /\ stock_shares' \in ShareInputs
    /\ UNCHANGED <<front_vars, calls_raw, puts_raw, expirations, current_price,
                   time_to_expiry, calls_positions, puts_positions,
                   stock_entry, scenario_vars>>
    /\ MainContent
    /\ UNCHANGED <<front_vars, pricing_vars, option_type, called, harness_vars>>

SetStockEntry ==
    /\ Loaded
    /\ stock_entry' \in StockEntryInputs \cup {current_price}
    /\ UNCHANGED <<front_vars, calls_raw, puts_raw, expirations, current_price,
                   time_to_expiry, calls_positions, puts_positions,
                   stock_shares, scenario_vars>>
    /\ MainContent
    /\ UNCHANGED <<front_vars, pricing_vars, option_type, called, harness_vars>>

(* The displayed table after the user typed position p, and entry e unless *)
(* e is None, into row i.                                                  *)
Edited(table, i, p, e) ==
    [table EXCEPT ![i].Position = p,
                  ![i].Entry = IF e = None THEN table[i].Entry ELSE e]

EditCalls ==
    /\ Loaded
    /\ \E i \in DisplayRange(calls_pnl, current_price), p \in Positions,
          e \in {None} \cup EntryInputs :
          calls_positions' =
              SavePositions(Edited(calls_pnl, i, p, e),
                            DisplayRange(calls_pnl, current_price), 1,
                            calls_positions)
    /\ UNCHANGED <<front_vars, calls_raw, puts_raw, expirations, current_price,
                   time_to_expiry, puts_positions,
                   stock_shares, stock_entry, scenario_vars>>
    /\ MainContent
    /\ UNCHANGED <<front_vars, pricing_vars, option_type, called, harness_vars>>

EditPuts ==
    /\ Loaded
    /\ \E i \in DisplayRange(puts_pnl, current_price), p \in Positions,
          e \in {None} \cup EntryInputs :
          puts_positions' =
              SavePositions(Edited(puts_pnl, i, p, e),
                            DisplayRange(puts_pnl, current_price), 1,
                            puts_positions)
    /\ UNCHANGED <<front_vars, calls_raw, puts_raw, expirations, current_price,
                   time_to_expiry, calls_positions,
                   stock_shares, stock_entry, scenario_vars>>
    /\ MainContent
    /\ UNCHANGED <<front_vars, pricing_vars, option_type, called, harness_vars>>

Next ==
    \/ LoadExpirations
    \/ SetDaysToScenario \/ SetStockScenario \/ SetIvAdjustment
    \/ SetStockShares \/ SetStockEntry
    \/ EditCalls \/ EditPuts

Spec == Init /\ [][Next]_vars


-----------------------------------------------------------------------------
(* Claims about the totals of the Streamlit session, checked under Spec.   *)

PositionedRows ==
    {calls_pnl[i] : i \in {j \in 1..Len(calls_pnl) : calls_pnl[j].Position # 0}}
    \cup {puts_pnl[i] : i \in {j \in 1..Len(puts_pnl) : puts_pnl[j].Position # 0}}

(* C1: for every chain, positions, entry prices, scenario and stock        *)
(* position the totals satisfy total P&L = options P&L + stock P&L and     *)
(* options P&L = total payout - total premiums paid + total premiums       *)
(* received, with stock P&L = (settlement - stock entry) * stock shares.   *)
C1_TotalsIdentity ==
    Loaded =>
        /\ totals.total_pnl = totals.options_pnl + totals.stock_pnl
        /\ totals.options_pnl =
              totals.total_payout - totals.total_prem_paid + totals.total_prem_rcvd
        /\ totals.stock_pnl = (stock_scenario - stock_entry) * stock_shares

(* C1, as far as it holds: the same identities whenever every row with a   *)
(* position has a numeric entry price.                                     *)
C1_IdentityOnNumericEntries ==
    (Loaded /\ \A r \in PositionedRows : r.Entry # NaN) =>
        /\ totals.total_pnl = totals.options_pnl + totals.stock_pnl
        /\ totals.options_pnl =
              totals.total_payout - totals.total_prem_paid + totals.total_prem_rcvd
        /\ totals.stock_pnl = (stock_scenario - stock_entry) * stock_shares

(* C1 witness: a long call and a short put, both at numeric entries, and a *)
(* stock position, with every total nonzero.                               *)
C1_Witness ==
    /\ Loaded
    /\ \A r \in PositionedRows : r.Entry # NaN
    /\ \E i \in 1..Len(calls_pnl) : calls_pnl[i].Position > 0
    /\ \E i \in 1..Len(puts_pnl) : puts_pnl[i].Position < 0
    /\ totals.total_prem_paid > 0 /\ totals.total_prem_rcvd > 0
    /\ totals.total_payout # 0 /\ totals.stock_pnl # 0
    /\ totals.total_pnl # totals.options_pnl


-----------------------------------------------------------------------------
(* SpecChain: the chain processor and the sheet writers applied to raw     *)
(* chains in any order, with duplicate strikes and with fields that are    *)
(* absent, null or NaN.                                                    *)

\* bid 2, ask 3: the same strike as QuoteRegular
QuoteTwoThree ==
    [strike |-> 100 * Scale, bid |-> 2000, ask |-> 3000, lastPrice |-> 2400,
     volume |-> 5, openInterest |-> 7, impliedVolatility |-> 300]

\* only the ask is quoted; volume, open interest and volatility are null
QuoteAskOnly ==
    [strike |-> 105 * Scale, bid |-> 0, ask |-> 1500, lastPrice |-> 1200,
     volume |-> None, openInterest |-> None, impliedVolatility |-> None]

\* only the bid is quoted, the ask is NaN
QuoteBidOnly ==
    [strike |-> 95 * Scale, bid |-> 1800, ask |-> NaN, lastPrice |-> 1700,
     volume |-> 3, openInterest |-> 4, impliedVolatility |-> 250]

\* a record that holds nothing but the strike
QuoteBare ==
    [strike |-> 120 * Scale, bid |-> Absent, ask |-> Absent, lastPrice |-> Absent,
     volume |-> Absent, openInterest |-> Absent, impliedVolatility |-> Absent]

QuoteNanStrike ==
    [strike |-> NaN, bid |-> 1000, ask |-> 2000, lastPrice |-> 1400,
     volume |-> 1, openInterest |-> 1, impliedVolatility |-> 250]

QuoteNullStrike ==
    [strike |-> None, bid |-> 1000, ask |-> 2000, lastPrice |-> 1400,
     volume |-> 1, openInterest |-> 1, impliedVolatility |-> 250]

QuoteNoStrike ==
    [strike |-> Absent, bid |-> 1000, ask |-> 2000, lastPrice |-> 1400,
     volume |-> 1, openInterest |-> 1, impliedVolatility |-> 250]

ChainQuotes ==
    {QuoteRegular, QuoteNoMarket, QuoteMissing, QuoteTwoThree, QuoteAskOnly,
     QuoteBidOnly, QuoteBare, QuoteNanStrike, QuoteNullStrike, QuoteNoStrike}

ProviderChains == UNION {[1..n -> ChainQuotes] : n \in 1..MaxRows}

InitChain ==
    /\ option_type \in Sides
    /\ current_price \in PriceInputs
    /\ time_to_expiry \in ExpiryTimes
    /\ records \in ProviderChains
    /\ df = <<>> /\ pnl = <<>>
    /\ sheet = NoSheet /\ sheet_tool = NoSheet
    /\ raised = {} /\ called = {}
    /\ stock_scenario = 0 /\ days_to_scenario = 0 /\ iv_adjustment = 0
    /\ IdlePricing
    /\ IdleFront
    /\ IdleSession

(* streamlit_app.process_options_df called on the chain.                   *)
ProcessOptionsDf ==
    /\ "process_options_df" \notin called
    /\ called' = called \cup {"process_options_df"}
    /\ IF ChainRaises(records)
       THEN /\ raised' = raised \cup {"process_options_df"}
            /\ df' = df
       ELSE /\ df' = process_options_df(records, current_price, time_to_expiry,
                                        option_type)
            /\ raised' = raised
    /\ UNCHANGED <<front_vars, pricing_vars, time_to_expiry, option_type, current_price,
                   session_vars, scenario_vars, records, pnl, sheet, sheet_tool>>

(* options_app.create_options_sheet called on the chain.                   *)
WriteSheetApp ==
    /\ "create_options_sheet" \notin called
    /\ "create_sheet" \notin called
    /\ called' = called \cup {"create_options_sheet"}
    /\ IF ChainRaises(records)
       THEN /\ raised' = raised \cup {"create_options_sheet"}
            /\ sheet' = sheet
       ELSE /\ sheet' = create_options_sheet(records, option_type, current_price,
                                             time_to_expiry)
            /\ raised' = raised
    /\ UNCHANGED <<front_vars, pricing_vars, time_to_expiry, option_type, current_price,
                   session_vars, scenario_vars, records, df, pnl, sheet_tool>>

(* options_tool.create_options_sheet called on the chain.                  *)
WriteSheetTool ==
    /\ "create_options_sheet_tool" \notin called
    /\ called' = called \cup {"create_options_sheet_tool"}
    /\ IF ChainRaises(records)
       THEN /\ raised' = raised \cup {"create_options_sheet_tool"}
            /\ sheet_tool' = sheet_tool
       ELSE /\ sheet_tool' = create_options_sheet_tool(records, option_type,
                                                       current_price, time_to_expiry)
            /\ raised' = raised
    /\ UNCHANGED <<front_vars, pricing_vars, time_to_expiry, option_type, current_price,
                   session_vars, scenario_vars, records, df, pnl, sheet>>

(* The download of the Streamlit app: the processed chain goes through     *)
(* calculate_pnl at the current price and into create_sheet.               *)
WriteSheetWeb ==
    /\ "process_options_df" \in called
    /\ "process_options_df" \notin raised
    /\ "create_sheet" \notin called
    /\ "create_options_sheet" \notin called
    /\ called' = called \cup {"create_sheet"}
    /\ pnl' = calculate_pnl(df, current_price, option_type, 0, 0)
    /\ sheet' = create_sheet(pnl', option_type, current_price)
    /\ UNCHANGED <<front_vars, pricing_vars, time_to_expiry, option_type, current_price,
                   session_vars, scenario_vars, records, df, sheet_tool, raised>>

NextChain == ProcessOptionsDf \/ WriteSheetApp \/ WriteSheetTool \/ WriteSheetWeb

SpecChain == InitChain /\ [][NextChain]_vars

-----------------------------------------------------------------------------
(* Claims about the chain processor and the sheet writers, checked under   *)
(* SpecChain.                                                              *)

Processed == "process_options_df" \in called /\ "process_options_df" \notin raised

WrittenApp == "create_options_sheet" \in called /\ "create_options_sheet" \notin raised

WrittenTool ==
    "create_options_sheet_tool" \in called /\ "create_options_sheet_tool" \notin raised

WrittenWeb == "create_sheet" \in called

(* bid, ask and last of the i-th raw record, after `x or 0`.               *)
BidOf(i) == OrZero(Get(records[i].bid))
AskOf(i) == OrZero(Get(records[i].ask))
LastOf(i) == OrZero(Get(records[i].lastPrice))

(* The mid price the specification gives: the mean of bid and ask when     *)
(* both are greater than 0, the last trade otherwise.                      *)
ExpectedMid(i) ==
    IF BidOf(i) # NaN /\ AskOf(i) # NaN /\ BidOf(i) > 0 /\ AskOf(i) > 0
    THEN (BidOf(i) + AskOf(i)) \div 2
    ELSE LastOf(i)

(* C12: the mid price of a contract is (bid + ask) / 2 when bid and ask    *)
(* are both greater than 0 and the last traded price otherwise (bid 0,     *)
(* ask 0, last 3.25 gives 3.25; bid 2, ask 3 gives 2.5; one positive side  *)
(* alone gives last), and the chain processor and the two raw-chain sheet  *)
(* writers put the same mid on the same record.                            *)
C12_MidRule ==
    /\ Processed =>
          \A i \in 1..Len(records) :
              /\ df[i].Mid = ExpectedMid(i)
              /\ records[i] = QuoteNoMarket => df[i].Mid = 3250
              /\ records[i] = QuoteTwoThree => df[i].Mid = 2500
              /\ records[i] \in {QuoteAskOnly, QuoteBidOnly} =>
                     df[i].Mid = LastOf(i)
    /\ WrittenApp =>
          \A i \in 1..Len(records) :
              sheet.rows[DataStartRow + i - 1].E = ExpectedMid(i)
    /\ WrittenTool =>
          \A i \in 1..Len(records) :
              sheet_tool.rows[DataStartRow + i - 1].E = ExpectedMid(i)
    /\ Processed /\ WrittenApp /\ WrittenTool =>
          \A i \in 1..Len(records) :
              /\ df[i].Mid = sheet.rows[DataStartRow + i - 1].E
              /\ df[i].Mid = sheet_tool.rows[DataStartRow + i - 1].E

(* C12: a chain with the two worked examples and a one-sided quote has     *)
(* gone through the processor and both writers.                            *)
C12_Witness ==
    /\ Processed /\ WrittenApp /\ WrittenTool
    /\ Len(records) = 2
    /\ records[1] = QuoteTwoThree /\ df[1].Mid = 2500
    /\ records[2] = QuoteAskOnly /\ df[2].Mid = 1200
    /\ sheet.rows[DataStartRow + 1].E = 1200
    /\ sheet_tool.rows[DataStartRow].E = 2500

(* The implied volatility of the i-th raw record, as the provider gave it. *)
RawIv(i) == records[i].impliedVolatility

NoVolatility(i) == RawIv(i) \in {Absent, None, NaN, 0}

(* calculate_delta of the Streamlit app on the i-th raw record.            *)
DeltaOfRecord(i) ==
    OnStrike(Get(records[i].strike),
             calculate_delta(current_price, Get(records[i].strike),
                             time_to_expiry, RawIv(i), option_type))

DeltaOfRecordApp(i) ==
    OnStrike(Get(records[i].strike),
             calculate_delta_app(current_price, Get(records[i].strike),
                                 time_to_expiry, RawIv(i), option_type))

(* C13, as stated: the chain processor reports delta 0 for a contract      *)
(* whose implied volatility is missing, null or zero and exactly the value *)
(* of calculate_delta for a contract whose implied volatility is greater   *)
(* than 0.                                                                 *)
C13_ReportsCalculateDelta ==
    Processed =>
        \A i \in 1..Len(records) :
            df[i].Delta = IF NoVolatility(i) THEN 0 ELSE DeltaOfRecord(i)

(* C13, as the code has it: delta 0 without volatility, never the +/-0.5   *)
(* fallback; with volatility the processor reports calculate_delta rounded *)
(* to two decimals, the desktop writer the unrounded value.                *)
C13_ReportsRoundedDelta ==
    /\ Processed =>
          \A i \in 1..Len(records) :
              /\ NoVolatility(i) => df[i].Delta = 0
              /\ ~NoVolatility(i) => df[i].Delta = Round2(DeltaOfRecord(i))
    /\ WrittenApp =>
          \A i \in 1..Len(records) :
              /\ NoVolatility(i) => sheet.rows[DataStartRow + i - 1].I = 0
              /\ ~NoVolatility(i) =>
                     sheet.rows[DataStartRow + i - 1].I = DeltaOfRecordApp(i)

(* C13: a contract without volatility and one with it, whose delta is not  *)
(* a whole number of hundredths, have been processed and written.          *)
C13_Witness ==
    /\ Processed /\ WrittenApp
    /\ Len(records) = 2
    /\ records[1] = QuoteAskOnly /\ df[1].Delta = 0
    /\ records[2] = QuoteRegular
    /\ DeltaOfRecord(2) % 10 # 0
    /\ df[2].Delta = Round2(DeltaOfRecord(2))
    /\ sheet.rows[DataStartRow + 1].I = DeltaOfRecord(2)

(* C14: process_options_df returns one normalized record per input record  *)
(* in input order: the output is as long as the input, its i-th strike is  *)
(* the i-th input strike (0 for a record without one), and two records     *)
(* with the same strike give two rows.                                     *)
C14_OneRowPerRecordInOrder ==
    Processed =>
        /\ Len(df) = Len(records)
        /\ \A i \in 1..Len(records) :
              /\ df[i].Strike = Get(records[i].strike)
              /\ df[i].Bid = BidOf(i)
              /\ df[i].Last = LastOf(i)

(* C14: a chain of two different quotes of one strike has been processed   *)
(* into two different rows, in the order of the chain.                     *)
C14_Witness ==
    /\ Processed
    /\ Len(records) = 2
    /\ records[1] = QuoteRegular /\ records[2] = QuoteTwoThree
    /\ Len(df) = 2
    /\ df[1].Strike = df[2].Strike
    /\ df[1].Bid = 4500 /\ df[2].Bid = 2000

IsNumber(x) == x # NaN /\ x # None /\ x # Absent

RowIsNumeric(r) ==
    /\ IsNumber(r.Strike) /\ IsNumber(r.Bid) /\ IsNumber(r.Ask)
    /\ IsNumber(r.Last) /\ IsNumber(r.Mid) /\ IsNumber(r.Volume)
    /\ IsNumber(r.OpenInt) /\ IsNumber(r.IV) /\ IsNumber(r.Delta)
    /\ IsNumber(r.Entry)

RawFields(q) ==
    {q.strike, q.bid, q.ask, q.lastPrice, q.volume, q.openInterest,
     q.impliedVolatility}

(* The strike calculate_delta receives for the i-th record, when called.   *)
ReachesDelta(i) ==
    IF FGt(OrZero(Get(RawIv(i))), 0) THEN {Get(records[i].strike)} ELSE {}

(* C15, as stated: whatever fields of the raw records are absent, null or  *)
(* NaN, process_options_df returns, every numeric field of every row is a  *)
(* number, and neither calculate_delta nor calculate_pnl (which reads the  *)
(* rows) receives a null or a NaN.                                         *)
C15_MissingFieldsBecomeZero ==
    /\ "process_options_df" \notin raised
    /\ Processed =>
          \A i \in 1..Len(records) :
              /\ RowIsNumeric(df[i])
              /\ \A k \in ReachesDelta(i) : IsNumber(k)

(* C15, as the code has it: an absent or null bid, ask, last, volume, open *)
(* interest or volatility becomes 0, as do an absent strike and a NaN      *)
(* volume or open interest; a record without NaN and without a null strike *)
(* is processed without an exception into a row of numbers.                *)
C15_AbsentAndNullBecomeZero ==
    /\ (\A i \in 1..Len(records) :
            records[i].strike # None \/ NoVolatility(i))
          => "process_options_df" \notin raised
    /\ Processed =>
          \A i \in 1..Len(records) :
              /\ records[i].strike = Absent => df[i].Strike = 0
              /\ records[i].bid \in {Absent, None} => df[i].Bid = 0
              /\ records[i].ask \in {Absent, None} => df[i].Ask = 0
              /\ records[i].lastPrice \in {Absent, None} => df[i].Last = 0
              /\ records[i].volume \in {Absent, None, NaN} => df[i].Volume = 0
              /\ records[i].openInterest \in {Absent, None, NaN} =>
                     df[i].OpenInt = 0
              /\ records[i].impliedVolatility \in {Absent, None} =>
                     df[i].IV = 0 /\ df[i].Delta = 0
              /\ (NaN \notin RawFields(records[i]) /\ records[i].strike # None)
                     => RowIsNumeric(df[i])

(* C15: records with null fields and with absent fields have been          *)
(* processed and hold 0 in their place.                                    *)
C15_Witness ==
    /\ Processed
    /\ Len(records) = 2
    /\ records[1] = QuoteAskOnly /\ records[2] = QuoteBare
    /\ df[1].Volume = 0 /\ df[1].IV = 0 /\ df[1].Bid = 0
    /\ df[2].Bid = 0 /\ df[2].Mid = 0 /\ df[2].OpenInt = 0
    /\ RowIsNumeric(df[1]) /\ RowIsNumeric(df[2])


-----------------------------------------------------------------------------
(* SpecSheet: one of the three writers produces a sheet from a raw chain   *)
(* and the user edits its yellow cells: positions, entries, the stock      *)
(* price at expiry and the stock position.                                 *)

InitSheet ==
    /\ option_type \in Sides
    /\ current_price \in PriceInputs
    /\ time_to_expiry \in ExpiryTimes
    /\ records \in RawChains \cup {<<>>}
    /\ df = <<>> /\ pnl = <<>>
    /\ sheet = NoSheet /\ sheet_tool = NoSheet
    /\ raised = {} /\ called = {}
    /\ stock_scenario = 0 /\ days_to_scenario = 0 /\ iv_adjustment = 0
    /\ IdlePricing
    /\ IdleFront
    /\ IdleSession

NothingWritten ==
    sheet.writer = "none" /\ sheet_tool.writer = "none" /\ raised = {}

(* The sheet the user has open.                                            *)
OpenSheet == IF sheet.writer # "none" THEN sheet ELSE sheet_tool

SaveSheet(sh) ==
    IF sheet.writer # "none"
    THEN sheet' = sh /\ sheet_tool' = sheet_tool
    ELSE sheet_tool' = sh /\ sheet' = sheet

(* options_app.py writes the sheet.                                        *)
ExportApp ==
    /\ NothingWritten
    /\ sheet' = create_options_sheet(records, option_type, current_price,
                                     time_to_expiry)
    /\ UNCHANGED <<front_vars, pricing_vars, time_to_expiry, option_type, current_price,
                   session_vars, scenario_vars, records, df, pnl, called,
                   sheet_tool, raised>>

(* options_tool.py writes the sheet.                                       *)
ExportTool ==
    /\ NothingWritten
    /\ sheet_tool' = create_options_sheet_tool(records, option_type,
                                               current_price, time_to_expiry)
    /\ UNCHANGED <<front_vars, pricing_vars, time_to_expiry, option_type, current_price,
                   session_vars, scenario_vars, records, df, pnl, called,
                   sheet, raised>>

(* streamlit_app.py processes the chain, runs calculate_pnl at the current *)
(* price and writes the sheet.                                             *)
ExportWeb ==
    /\ NothingWritten
    /\ df' = process_options_df(records, current_price, time_to_expiry,
                                option_type)
    /\ IF records = <<>>
       THEN \* the empty DataFrame has no column: df['Strike'] is a KeyError
            /\ raised' = {"calculate_pnl"}
            /\ UNCHANGED <<pnl, sheet>>
       ELSE /\ pnl' = calculate_pnl(df', current_price, option_type, 0, 0)
            /\ sheet' = create_sheet(pnl', option_type, current_price)
            /\ raised' = raised
    /\ UNCHANGED <<front_vars, pricing_vars, time_to_expiry, option_type, current_price,
                   session_vars, scenario_vars, records, called, sheet_tool>>

TypePosition ==
    /\ OpenSheet.writer # "none"
    /\ \E r \in DOMAIN OpenSheet.rows, p \in Positions :
          /\ OpenSheet.rows[r].J # p
          /\ SaveSheet(SheetWithPosition(OpenSheet, option_type, r, p))
    /\ UNCHANGED <<front_vars, pricing_vars, time_to_expiry, option_type, current_price,
                   session_vars, scenario_vars, records, df, pnl, called, raised>>

TypeEntry ==
    /\ OpenSheet.writer # "none"
    /\ \E r \in DOMAIN OpenSheet.rows, k \in EntryInputs :
          /\ OpenSheet.rows[r].K # k
          /\ SaveSheet(SheetWithEntry(OpenSheet, option_type, r, k))
    /\ UNCHANGED <<front_vars, pricing_vars, time_to_expiry, option_type, current_price,
                   session_vars, scenario_vars, records, df, pnl, called, raised>>

TypeSettlement ==
    /\ OpenSheet.writer # "none"
    /\ \E h \in SettlementInputs :
          /\ OpenSheet.H2 # h
          /\ SaveSheet(SheetWithSettlement(OpenSheet, option_type, h))
    /\ UNCHANGED <<front_vars, pricing_vars, time_to_expiry, option_type, current_price,
                   session_vars, scenario_vars, records, df, pnl, called, raised>>

TypeStock ==
    /\ sheet.writer # "none"
    /\ sheet.J2 = 0
    /\ \E shares \in ShareInputs \ {0}, entry \in StockEntryInputs :
          sheet' = SheetWithStock(sheet, option_type, shares, entry)
    /\ UNCHANGED <<front_vars, pricing_vars, time_to_expiry, option_type, current_price,
                   session_vars, scenario_vars, records, df, pnl, called,
                   sheet_tool, raised>>

NextSheet ==
    \/ ExportApp \/ ExportTool \/ ExportWeb
    \/ TypePosition \/ TypeEntry \/ TypeSettlement \/ TypeStock

SpecSheet == InitSheet /\ [][NextSheet]_vars

-----------------------------------------------------------------------------
(* Claims about the formulas of the exported sheets, checked under         *)
(* SpecSheet.                                                              *)

(* The row of calculate_pnl at days_to_scenario = 0 for the inputs of a    *)
(* sheet row: strike A, position J, entry K, settlement H2.                *)
EngineRow(c, H2, side) ==
    calculate_pnl(<<[Strike |-> c.A, Bid |-> 0, Ask |-> 0, Last |-> 0,
                     Mid |-> c.E, Volume |-> 0, OpenInt |-> 0, IV |-> c.H,
                     Delta |-> c.I, Position |-> c.J, Entry |-> c.K]>>,
                  H2, side, 0, 0)[1]

SheetMatchesEngine(sh, c) ==
    LET e == EngineRow(c, sh.H2, option_type)
    IN IF sh.writer = "tool"
       THEN c.M = e.PnL /\ c.L = e.ScenValue
       ELSE /\ c.P = e.PnL
            /\ c.L = e.PremPaid /\ c.M = e.PremRcvd
            /\ c.N = e.ScenValue /\ c.O = e.Payout

(* C16, as stated: on every row of every exported sheet, whatever the      *)
(* position, entry and settlement, the P&L the formulas give is the pnl of *)
(* calculate_pnl at days_to_scenario = 0 for the same inputs, and so are   *)
(* the premium, value and payout cells the sheet has.                      *)
C16_SheetEqualsEngine ==
    OpenSheet.writer # "none" =>
        \A r \in DOMAIN OpenSheet.rows :
            SheetMatchesEngine(OpenSheet, OpenSheet.rows[r])

(* C16, as the code has it: the same, on the rows whose entry price is a   *)
(* number.                                                                 *)
C16_SheetEqualsEngineOnNumericEntries ==
    OpenSheet.writer # "none" =>
        \A r \in DOMAIN OpenSheet.rows :
            IsNumber(OpenSheet.rows[r].K) =>
                SheetMatchesEngine(OpenSheet, OpenSheet.rows[r])

(* C16: a short position with a typed entry on a sheet of options_tool.py  *)
(* whose settlement was moved, with a P&L that is not 0.                   *)
C16_Witness ==
    /\ sheet_tool.writer = "tool"
    /\ sheet_tool.H2 # current_price
    /\ \E r \in DOMAIN sheet_tool.rows :
          /\ sheet_tool.rows[r].J = -1
          /\ sheet_tool.rows[r].K = 2 * Scale
          /\ sheet_tool.rows[r].M # 0
          /\ sheet_tool.rows[r].M # NaN
          /\ sheet_tool.rows[r].M =
                 EngineRow(sheet_tool.rows[r], sheet_tool.H2, option_type).PnL

(* The sum of a column over the data rows of a sheet, whatever their row   *)
(* numbers; an error value in a cell makes it an error.                    *)
RECURSIVE ColumnSum(_, _, _)
ColumnSum(rows, col, todo) ==
    IF todo = {} THEN 0
    ELSE LET r == CHOOSE x \in todo : TRUE
         IN FAdd(rows[r][col], ColumnSum(rows, col, todo \ {r}))

(* The stock P&L reference, (H2 - K2) * J2; an empty cell counts as 0.     *)
StockReference(sh) == FMul(FSub(sh.H2, CellNum(sh.K2)), CellNum(sh.J2))

-----------------------------------------------------------------------------
(* The layout of the data rows, checked under SpecChain.                   *)

(* The sheets written so far.                                              *)
WrittenSheets ==
    (IF WrittenApp \/ WrittenWeb THEN {sheet} ELSE {})
        \cup (IF WrittenTool THEN {sheet_tool} ELSE {})

(* Row 6 + i holds the i-th contract of the chain, counted from 0, and     *)
(* there is no other data row.                                             *)
OneRowPerContract(sh) ==
    /\ DOMAIN sh.rows = 6..(5 + Len(records))
    /\ \A i \in 0..(Len(records) - 1) :
          sh.rows[6 + i].A = Get(records[i + 1].strike)

AscendingStrikes(sh) ==
    \A r1, r2 \in DOMAIN sh.rows :
        (r1 < r2 /\ IsNumber(sh.rows[r1].A) /\ IsNumber(sh.rows[r2].A))
            => sh.rows[r1].A <= sh.rows[r2].A

ChainIsAscending ==
    \A i, j \in 1..Len(records) :
        (i < j /\ IsNumber(Get(records[i].strike))
               /\ IsNumber(Get(records[j].strike)))
            => Get(records[i].strike) <= Get(records[j].strike)

(* C18, as stated: in every exported sheet the contract rows start at row  *)
(* 6, row 6 + i holds the i-th contract, and the strikes of column A       *)
(* ascend from row 6 downward.                                             *)
C18_RowsAscendFromRow6 ==
    \A sh \in WrittenSheets : OneRowPerContract(sh) /\ AscendingStrikes(sh)

(* C18, as the code has it: the rows start at row 6 and follow the chain,  *)
(* one row per contract; column A ascends when the chain does.             *)
C18_RowsFollowChain ==
    \A sh \in WrittenSheets :
        /\ OneRowPerContract(sh)
        /\ ChainIsAscending => AscendingStrikes(sh)

(* C18: the three writers have written an ascending chain of two           *)
(* contracts into rows 6 and 7.                                            *)
C18_Witness ==
    /\ WrittenTool /\ (WrittenApp \/ WrittenWeb)
    /\ Len(records) = 2
    /\ records[1] = QuoteBidOnly /\ records[2] = QuoteRegular
    /\ sheet.rows[6].A = 95 * Scale /\ sheet.rows[7].A = 100 * Scale
    /\ sheet_tool.rows[6].A = 95 * Scale /\ sheet_tool.rows[7].A = 100 * Scale
    /\ DOMAIN sheet.rows = {6, 7}


-----------------------------------------------------------------------------
(* SpecFrontEnd: one run of a front end (the Streamlit page, the command   *)
(* line tool, the desktop window) against a provider that may fail, have   *)
(* no expirations, or return chains without records.                       *)

ExpirationOutcomes ==
    {[fails |-> TRUE, dates |-> <<>>],
     [fails |-> FALSE, dates |-> <<>>],
     [fails |-> FALSE, dates |-> <<"2026-12-18">>]}

FrontChains == {<<>>} \cup {<<q>> : q \in Quotes}

ChainOutcomes ==
    {[fails |-> TRUE, calls |-> <<>>, puts |-> <<>>]}
        \cup {[fails |-> FALSE, calls |-> c, puts |-> p] :
                  c \in FrontChains, p \in FrontChains}

FrontEnds == {"web", "tool", "app"}

InitFrontEnd ==
    /\ front \in FrontEnds
    /\ provider \in [expirations : ExpirationOutcomes, chain : ChainOutcomes]
    /\ step = "start"
    /\ produced = {}
    /\ status_var = ""
    /\ IdleDesktop
    /\ IdleMore
    /\ option_type = "CALL" /\ time_to_expiry = 0 /\ current_price = 0
    /\ called = {}
    /\ stock_scenario = 0 /\ days_to_scenario = 0 /\ iv_adjustment = 0
    /\ IdlePricing
    /\ IdleSession
    /\ IdleHarness

(* get_expirations_and_price, and stock.options in the other front ends:   *)
(* the dates, [] where the Streamlit app swallows the failure.             *)
DatesOrNone(outcome) == IF outcome.fails THEN <<>> ELSE outcome.dates

(* Streamlit, the Load Expirations button.                                 *)
WebLoadExpirations ==
    /\ front = "web" /\ step = "start"
    /\ IF DatesOrNone(provider.expirations) # <<>>
       THEN /\ expirations' = DatesOrNone(provider.expirations)
            /\ status_var' = "Found expirations"
            /\ step' = "loaded"
       ELSE /\ expirations' = expirations
            /\ status_var' = "No options found for this ticker"
            /\ step' = "done"
    /\ UNCHANGED <<desktop_vars, more_vars, front, provider, produced, pricing_vars,
                   time_to_expiry, option_type, called, current_price,
                   calls_raw, puts_raw, calls_positions, puts_positions,
                   stock_shares, stock_entry, calls_pnl, puts_pnl, totals,
                   scenario_vars, harness_vars>>

(* Streamlit, the main content: get_options_chain, process_options_df and  *)
(* calculate_pnl on both sides, the totals and the download.  The table of *)
(* an empty chain has no column, and calculate_pnl raises KeyError on it.  *)
WebMainContent ==
    /\ front = "web" /\ step = "loaded"
    /\ step' = "done"
    /\ IF provider.chain.fails
       THEN /\ status_var' = "Failed to load options chain"
            /\ UNCHANGED <<produced, raised>>
       ELSE IF provider.chain.calls = <<>> \/ provider.chain.puts = <<>>
       THEN /\ raised' = raised \cup {"calculate_pnl"}
            /\ UNCHANGED <<produced, status_var>>
       ELSE /\ produced' = {"table", "totals", "workbook"}
            /\ UNCHANGED <<status_var, raised>>
    /\ UNCHANGED <<desktop_vars, more_vars, front, provider, pricing_vars,
                   time_to_expiry, option_type, called, current_price,
                   session_vars, scenario_vars, records, df, pnl, sheet,
                   sheet_tool>>

(* options_tool.main, up to the choice of the expiration.                  *)
ToolExpirations ==
    /\ front = "tool" /\ step = "start"
    /\ IF provider.expirations.fails
       THEN status_var' = "Error" /\ step' = "done"
       ELSE IF provider.expirations.dates = <<>>
       THEN status_var' = "No options available" /\ step' = "done"
       ELSE status_var' = status_var /\ step' = "loaded"
    /\ UNCHANGED <<desktop_vars, more_vars, front, provider, produced, pricing_vars,
                   time_to_expiry, option_type, called, current_price,
                   session_vars, scenario_vars, harness_vars>>

(* A variant of ToolHasData that does not look at the number of calls.     *)
ToolHasData_unchecked(chain) == ~chain.fails

(* options_tool.main: not (calls_df is None or calls_df.empty).            *)
ToolHasData(chain) == ~chain.fails /\ chain.calls # <<>>

(* options_tool.main from get_options_data to create_excel_file.           *)
ToolFetchAndWrite ==
    /\ front = "tool" /\ step = "loaded"
    /\ step' = "done"
    /\ IF ToolHasData(provider.chain)
       THEN /\ produced' = {"workbook"}
            /\ status_var' = "Excel file created"
       ELSE /\ produced' = produced
            /\ status_var' = "No options data retrieved."
    /\ UNCHANGED <<desktop_vars, more_vars, front, provider, pricing_vars,
                   time_to_expiry, option_type, called, current_price,
                   session_vars, scenario_vars, harness_vars>>

(* OptionsApp.load_expirations with its fetch thread and the callback it   *)
(* posts.  The callback of the except branch reads `e` after the except    *)
(* block has unbound it and raises NameError in the Tk main loop: the      *)
(* status line keeps the text set before the thread started.               *)
AppLoadExpirations ==
    /\ front = "app" /\ step = "start"
    /\ IF provider.expirations.fails
       THEN /\ status_var' = "Loading"
            /\ raised' = raised \cup {"status callback"}
            /\ step' = "done"
            /\ expirations' = expirations
       ELSE /\ expirations' = provider.expirations.dates
            /\ raised' = raised
            /\ IF provider.expirations.dates # <<>>
               THEN status_var' = "Found expirations" /\ step' = "loaded"
               ELSE /\ status_var' = "No options found for this ticker"
                    /\ step' = "done"
    /\ UNCHANGED <<desktop_vars, more_vars, front, provider, produced, pricing_vars,
                   time_to_expiry, option_type, called, current_price,
                   calls_raw, puts_raw, calls_positions, puts_positions,
                   stock_shares, stock_entry, calls_pnl, puts_pnl, totals,
                   scenario_vars, records, df, pnl, sheet, sheet_tool>>

(* OptionsApp.generate_excel with its thread: the workbook is written from *)
(* whatever the chain holds.                                               *)
AppGenerateExcel ==
    /\ front = "app" /\ step = "loaded"
    /\ step' = "done"
    /\ IF provider.chain.fails
       THEN /\ status_var' = "Generating Excel..."
            /\ raised' = raised \cup {"status callback"}
            /\ produced' = produced
       ELSE /\ produced' = {"workbook"}
            /\ status_var' = "Created"
            /\ raised' = raised
    /\ UNCHANGED <<desktop_vars, more_vars, front, provider, pricing_vars,
                   time_to_expiry, option_type, called, current_price,
                   session_vars, scenario_vars, records, df, pnl, sheet,
                   sheet_tool>>

NextFrontEnd ==
    \/ WebLoadExpirations \/ WebMainContent
    \/ ToolExpirations \/ ToolFetchAndWrite
    \/ AppLoadExpirations \/ AppGenerateExcel

SpecFrontEnd == InitFrontEnd /\ [][NextFrontEnd]_vars

-----------------------------------------------------------------------------
(* Claims about the front ends, checked under SpecFrontEnd.                *)

NoExpirations == provider.expirations.fails \/ provider.expirations.dates = <<>>

ChainFetchFails == ~NoExpirations /\ provider.chain.fails

EmptyChain ==
    /\ ~NoExpirations /\ ~provider.chain.fails
    /\ (provider.chain.calls = <<>> \/ provider.chain.puts = <<>>)

NoDataMessages ==
    {"No options found for this ticker", "Failed to load options chain",
     "Error", "No options available", "No options data retrieved."}

EndsInMessage == status_var \in NoDataMessages /\ produced = {} /\ raised = {}

(* C19, as stated: when the provider has no expirations, fails, or returns *)
(* a chain with no call records or no put records, the run of every front  *)
(* end ends with a message, has produced no table, totals or workbook, and *)
(* has raised nothing.                                                     *)
C19_NoDataEndsInMessage ==
    (step = "done" /\ (NoExpirations \/ ChainFetchFails \/ EmptyChain))
        => EndsInMessage

(* C19, as the code has it: the Streamlit page and the command line tool   *)
(* end in a message when there are no expirations or a fetch fails, the    *)
(* tool also when the chain has no calls, the desktop window when the      *)
(* provider answers with no expirations.                                   *)
C19_HandledNoData ==
    step = "done" =>
        /\ (front \in {"web", "tool"} /\ (NoExpirations \/ ChainFetchFails))
               => EndsInMessage
        /\ (front = "tool" /\ ~NoExpirations /\ ~provider.chain.fails
                 /\ provider.chain.calls = <<>>) => EndsInMessage
        /\ (front = "app" /\ ~provider.expirations.fails
                 /\ provider.expirations.dates = <<>>) => EndsInMessage

(* C19: the Streamlit page has ended on a chain fetch that failed.         *)
C19_Witness ==
    /\ front = "web" /\ step = "done"
    /\ ChainFetchFails
    /\ status_var = "Failed to load options chain"
    /\ produced = {} /\ raised = {}


-----------------------------------------------------------------------------
(* SpecDesktop: the window of options_app.py.  Every click on Load starts  *)
(* a thread that runs `fetch` statement by statement, writing the fields   *)
(* of the application object; the Tk main loop runs the callbacks the      *)
(* threads post.                                                           *)

MaxLoads == 2

Tickers == {"AAA", "BBB"}

(* What the provider holds for a ticker.                                   *)
OptionsOf(t) ==
    IF t = "AAA" THEN <<"2026-12-18">> ELSE <<"2027-01-15", "2027-03-19">>

PriceOf(t) == IF t = "AAA" THEN 50 * Scale ELSE 70 * Scale

InitDesktop ==
    /\ app_stock = ""
    /\ expirations = <<>>
    /\ current_price = 0
    /\ expiry_combo = <<>>
    /\ price_label = 0
    /\ status_var = "Enter ticker and click Load"
    /\ fetches = <<>>
    /\ after_queue = <<>>
    /\ IdleMore
    /\ front = "app" /\ provider = NoProvider /\ step = "start" /\ produced = {}
    /\ option_type = "CALL" /\ time_to_expiry = 0
    /\ called = {}
    /\ stock_scenario = 0 /\ days_to_scenario = 0 /\ iv_adjustment = 0
    /\ calls_raw = <<>> /\ puts_raw = <<>>
    /\ calls_positions = EmptyBook /\ puts_positions = EmptyBook
    /\ stock_shares = 0 /\ stock_entry = 0
    /\ calls_pnl = <<>> /\ puts_pnl = <<>> /\ totals = NoTotals
    /\ IdlePricing
    /\ IdleHarness

(* The variables the desktop window does not have.                         *)
not_desktop_vars ==
    <<front, provider, step, produced, more_vars, pricing_vars, time_to_expiry,
      option_type, called,
      calls_raw, puts_raw, calls_positions, puts_positions, stock_shares,
      stock_entry, calls_pnl, puts_pnl, totals, scenario_vars, harness_vars>>

Running(i) == fetches[i].pc # "done"

(* load_expirations: the status line and the start of the thread.          *)
LoadExpirationsApp ==
    /\ Len(fetches) < MaxLoads
    /\ \E t \in Tickers :
          fetches' = Append(fetches,
              [ticker |-> t, pc |-> "stock",
               overlapped |-> \E i \in 1..Len(fetches) : Running(i)])
    /\ status_var' = "Loading"
    /\ UNCHANGED <<not_desktop_vars, app_stock, expirations, current_price,
                   expiry_combo, price_label, after_queue>>

(* fetch: self.stock = yf.Ticker(ticker)                                   *)
FetchStock ==
    /\ \E i \in 1..Len(fetches) :
          /\ fetches[i].pc = "stock"
          /\ app_stock' = fetches[i].ticker
          /\ fetches' = [fetches EXCEPT ![i].pc = "options"]
    /\ UNCHANGED <<not_desktop_vars, expirations, current_price, expiry_combo,
                   price_label, status_var, after_queue>>

(* fetch: self.expirations = list(self.stock.options), on the handle the   *)
(* field holds at that moment.                                             *)
FetchOptions ==
    /\ \E i \in 1..Len(fetches) :
          /\ fetches[i].pc = "options"
          /\ expirations' = OptionsOf(app_stock)
          /\ fetches' = [fetches EXCEPT ![i].pc = "price"]
    /\ UNCHANGED <<not_desktop_vars, app_stock, current_price, expiry_combo,
                   price_label, status_var, after_queue>>

(* fetch: self.current_price = self.stock.info.get(...)                    *)
FetchPrice ==
    /\ \E i \in 1..Len(fetches) :
          /\ fetches[i].pc = "price"
          /\ current_price' = PriceOf(app_stock)
          /\ fetches' = [fetches EXCEPT ![i].pc = "notify"]
    /\ UNCHANGED <<not_desktop_vars, app_stock, expirations, expiry_combo,
                   price_label, status_var, after_queue>>

(* fetch: self.root.after(0, self.update_ui)                               *)
FetchNotify ==
    /\ \E i \in 1..Len(fetches) :
          /\ fetches[i].pc = "notify"
          /\ fetches' = [fetches EXCEPT ![i].pc = "done"]
    /\ after_queue' = Append(after_queue, "update_ui")
    /\ UNCHANGED <<not_desktop_vars, app_stock, expirations, current_price,
                   expiry_combo, price_label, status_var>>

(* A variant of ComboAfterUpdate that leaves the drop-down alone.          *)
ComboAfterUpdate_stale(dates, combo) == combo

(* update_ui: the drop-down takes self.expirations when there are some.    *)
ComboAfterUpdate(dates, combo) == IF dates # <<>> THEN dates ELSE combo

(* update_ui, run by the main loop.                                        *)
UpdateUi ==
    /\ after_queue # <<>>
    /\ after_queue' = Tail(after_queue)
    /\ expiry_combo' = ComboAfterUpdate(expirations, expiry_combo)
    /\ price_label' = IF expirations # <<>> THEN current_price ELSE price_label
    /\ status_var' = IF expirations # <<>> THEN "Found expirations"
                     ELSE "No options found for this ticker"
    /\ UNCHANGED <<not_desktop_vars, app_stock, expirations, current_price,
                   fetches>>

NextDesktop ==
    \/ LoadExpirationsApp
    \/ FetchStock \/ FetchOptions \/ FetchPrice \/ FetchNotify
    \/ UpdateUi

SpecDesktop == InitDesktop /\ [][NextDesktop]_vars

-----------------------------------------------------------------------------
(* Claims about the desktop window, checked under SpecDesktop.             *)

(* Every started fetch has completed and its callback has run.             *)
Quiescent ==
    /\ fetches # <<>>
    /\ \A i \in 1..Len(fetches) : ~Running(i)
    /\ after_queue = <<>>

StateIsOf(t) ==
    /\ app_stock = t
    /\ expirations = OptionsOf(t)
    /\ current_price = PriceOf(t)
    /\ expiry_combo = OptionsOf(t)
    /\ price_label = PriceOf(t)

LoadedTickers == {fetches[i].ticker : i \in 1..Len(fetches)}

(* C20, as stated: when a load of one ticker is started and then a load of *)
(* another while the first fetch is still running, then once both fetches  *)
(* have completed, in whatever interleaving, the stock handle, the         *)
(* expirations, the price and the drop-down are those of the second.       *)
C20_LastStartedWins ==
    (/\ Quiescent
     /\ Len(fetches) = 2
     /\ fetches[2].overlapped
     /\ fetches[1].ticker # fetches[2].ticker)
        => StateIsOf(fetches[2].ticker)

(* C20, as the code has it: once everything has completed, the window      *)
(* shows the fields of the object, every field holds the data of one of    *)
(* the tickers loaded, and the state is that of the last load when no load *)
(* was started while another was running.                                  *)
C20_LastCompletedWins ==
    Quiescent =>
        /\ expiry_combo = expirations
        /\ price_label = current_price
        /\ app_stock \in LoadedTickers
        /\ \E t \in LoadedTickers : expirations = OptionsOf(t)
        /\ \E t \in LoadedTickers : current_price = PriceOf(t)
        /\ (\A i \in 1..Len(fetches) : ~fetches[i].overlapped)
               => StateIsOf(fetches[Len(fetches)].ticker)

(* C20: two overlapping loads of different tickers have completed and the  *)
(* window holds the state of the first.                                    *)
C20_Witness ==
    /\ Quiescent
    /\ Len(fetches) = 2
    /\ fetches[1].ticker = "AAA" /\ fetches[2].ticker = "BBB"
    /\ fetches[2].overlapped
    /\ StateIsOf("AAA")

-----------------------------------------------------------------------------
(* SpecWindow: the window of options_app.py with its ticker entry, its     *)
(* drop-down and both buttons.  The user types in the ticker entry, picks  *)
(* an expiration and clicks Load and Generate; each click starts a thread, *)
(* and the thread's callback is run by the Tk main loop.  A click is taken *)
(* when the thread of the previous one and its callback are over; loads    *)
(* that overlap are the subject of SpecDesktop.                            *)

MaxClicks == 3

(* What the user may type into the ticker entry.                           *)
TickerTexts == {"", "CCJ", " xyz"}

(* ticker_var.get().strip().upper()                                        *)
StripUpper(text) == IF text = " xyz" THEN "XYZ" ELSE text

(* What the provider lists for a ticker: both tickers have the December    *)
(* expiration.                                                             *)
ListedFor(t) ==
    IF t = "CCJ" THEN <<"2026-12-18">>
    ELSE IF t = "XYZ" THEN <<"2026-12-18", "2027-01-15">>
    ELSE <<>>

QuotedFor(t) == IF t = "CCJ" THEN 50 * Scale ELSE IF t = "XYZ" THEN 70 * Scale ELSE 0

(* What a call of stock.options ends in: the listed dates, no date at all, *)
(* or an exception.                                                        *)
OptionsOutcomes == {"found", "empty", "fails"}

InitWindow ==
    /\ app_stock = ""
    /\ expirations = <<>>
    /\ current_price = 0
    /\ expiry_combo = <<>>
    /\ price_label = 0
    /\ status_var = "Enter ticker and click Load"
    /\ fetches = <<>>
    /\ after_queue = <<>>
    /\ ticker_var = "CCJ" /\ expiry_var = "" /\ workbook = NoWorkbook
    /\ IdlePage /\ IdleGate /\ IdleCli /\ IdlePure
    /\ front = "app" /\ provider = NoProvider /\ step = "start" /\ produced = {}
    /\ option_type = "CALL" /\ time_to_expiry = 0
    /\ called = {}
    /\ stock_scenario = 0 /\ days_to_scenario = 0 /\ iv_adjustment = 0
    /\ calls_raw = <<>> /\ puts_raw = <<>>
    /\ calls_positions = EmptyBook /\ puts_positions = EmptyBook
    /\ stock_shares = 0 /\ stock_entry = 0
    /\ calls_pnl = <<>> /\ puts_pnl = <<>> /\ totals = NoTotals
    /\ IdlePricing
    /\ IdleHarness

(* The variables the window with its buttons does not have.                *)
not_window_vars ==
    <<front, provider, step, produced, page_vars, gate_vars, cli_vars,
      pure_vars, pricing_vars, time_to_expiry, option_type, called,
      calls_raw, puts_raw, calls_positions, puts_positions, stock_shares,
      stock_entry, calls_pnl, puts_pnl, totals, scenario_vars,
      records, df, pnl, sheet, sheet_tool>>

(* No thread runs and no callback waits.                                   *)
WindowIdle ==
    /\ \A i \in 1..Len(fetches) : ~Running(i)
    /\ after_queue = <<>>

(* The user types another text into the ticker entry.                      *)
TypeTicker ==
    /\ \E text \in TickerTexts \ {ticker_var} : ticker_var' = text
    /\ UNCHANGED <<not_window_vars, app_stock, expirations, current_price,
                   expiry_combo, price_label, status_var, fetches, after_queue,
                   expiry_var, workbook, raised>>

(* The user picks another value of the read-only drop-down.                *)
SelectExpiry ==
    /\ \E i \in 1..Len(expiry_combo) :
          /\ expiry_combo[i] # expiry_var
          /\ expiry_var' = expiry_combo[i]
    /\ UNCHANGED <<not_window_vars, app_stock, expirations, current_price,
                   expiry_combo, price_label, status_var, fetches, after_queue,
                   ticker_var, workbook, raised>>

(* load_expirations: an empty ticker ends in a message box; otherwise the  *)
(* status line is set and the thread started.                              *)
load_expirations ==
    /\ WindowIdle
    /\ Len(fetches) < MaxClicks
    /\ IF StripUpper(ticker_var) = ""
       THEN UNCHANGED <<status_var, fetches>>
       ELSE /\ status_var' = "Loading"
            /\ fetches' = Append(fetches,
                   [kind |-> "fetch", ticker |-> StripUpper(ticker_var),
                    expiry |-> "", pc |-> "run", outcome |-> "none"])
    /\ UNCHANGED <<not_window_vars, app_stock, expirations, current_price,
                   expiry_combo, price_label, after_queue,
                   ticker_var, expiry_var, workbook, raised>>

(* A variant of ExpirationsAfterFetch that empties the list on a failure.  *)
ExpirationsAfterFetch_cleared(outcome, t, old) ==
    IF outcome = "found" THEN ListedFor(t) ELSE <<>>

(* fetch: self.expirations = list(self.stock.options); an exception leaves *)
(* the field as it was.                                                    *)
ExpirationsAfterFetch(outcome, t, old) ==
    IF outcome = "fails" THEN old
    ELSE IF outcome = "empty" THEN <<>>
    ELSE ListedFor(t)

(* fetch, the body of the thread: the handle is replaced first, then the   *)
(* expirations and the price are read through it, then update_ui is        *)
(* posted; an exception posts the status callback instead.                 *)
fetch ==
    /\ \E i \in 1..Len(fetches) :
          /\ fetches[i].kind = "fetch" /\ fetches[i].pc = "run"
          /\ \E outcome \in OptionsOutcomes :
                /\ outcome = "found" => ListedFor(fetches[i].ticker) # <<>>
                /\ fetches' = [fetches EXCEPT ![i].pc = "done",
                                              ![i].outcome = outcome]
                /\ app_stock' = fetches[i].ticker
                /\ expirations' =
                       ExpirationsAfterFetch(outcome, fetches[i].ticker, expirations)
                /\ current_price' = IF outcome = "fails" THEN current_price
                                    ELSE QuotedFor(fetches[i].ticker)
                /\ after_queue' = Append(after_queue,
                       IF outcome = "fails" THEN "status" ELSE "update_ui")
    /\ UNCHANGED <<not_window_vars, expiry_combo, price_label, status_var,
                   ticker_var, expiry_var, workbook, raised>>

(* update_ui, run by the main loop: with expirations the drop-down takes   *)
(* them and selects the first; without, only the status line changes.      *)
update_ui ==
    /\ after_queue # <<>> /\ Head(after_queue) = "update_ui"
    /\ after_queue' = Tail(after_queue)
    /\ expiry_combo' = ComboAfterUpdate(expirations, expiry_combo)
    /\ expiry_var' = IF expirations # <<>> THEN expirations[1] ELSE expiry_var
    /\ price_label' = IF expirations # <<>> THEN current_price ELSE price_label
    /\ status_var' = IF expirations # <<>> THEN "Found expirations"
                     ELSE "No options found for this ticker"
    /\ UNCHANGED <<not_window_vars, app_stock, expirations, current_price,
                   fetches, ticker_var, workbook, raised>>

(* The callback of an except branch, run by the main loop: it reads `e`    *)
(* after the except block has unbound it and raises NameError.             *)
StatusCallback ==
    /\ after_queue # <<>> /\ Head(after_queue) = "status"
    /\ after_queue' = Tail(after_queue)
    /\ raised' = raised \cup {"status callback"}
    /\ UNCHANGED <<not_window_vars, app_stock, expirations, current_price,
                   expiry_combo, price_label, status_var, fetches,
                   ticker_var, expiry_var, workbook>>

(* generate_excel: the ticker is read from the entry and the expiration    *)
(* from the drop-down when the button is clicked.                          *)
generate_excel ==
    /\ WindowIdle
    /\ Len(fetches) < MaxClicks
    /\ IF StripUpper(ticker_var) = "" \/ expiry_var = ""
       THEN UNCHANGED <<status_var, fetches>>
       ELSE /\ status_var' = "Generating Excel..."
            /\ fetches' = Append(fetches,
                   [kind |-> "generate", ticker |-> StripUpper(ticker_var),
                    expiry |-> expiry_var, pc |-> "run", outcome |-> "none"])
    /\ UNCHANGED <<not_window_vars, app_stock, expirations, current_price,
                   expiry_combo, price_label, after_queue,
                   ticker_var, expiry_var, workbook, raised>>

(* A variant of WorkbookTicker that names the workbook after the handle.   *)
WorkbookTicker_of_handle(clicked, handle) == handle

(* generate: the ticker of cell B2 and of the file name is the local       *)
(* `ticker` of generate_excel, the text of the entry at the click; the     *)
(* handle self.stock is not asked.                                         *)
WorkbookTicker(clicked, handle) == clicked

(* generate, the body of the thread: the chain is read through self.stock, *)
(* the price is self.current_price, the Expirations tab lists              *)
(* self.expirations, and the name of the file and cell B2 take the ticker  *)
(* read at the click.  option_chain raises for a date the handle's ticker  *)
(* does not list, and when the provider fails.                             *)
generate ==
    /\ \E i \in 1..Len(fetches) :
          /\ fetches[i].kind = "generate" /\ fetches[i].pc = "run"
          /\ \E answers \in BOOLEAN :
                LET written == /\ answers
                               /\ \E k \in 1..Len(ListedFor(app_stock)) :
                                     ListedFor(app_stock)[k] = fetches[i].expiry
                IN /\ fetches' = [fetches EXCEPT
                          ![i].pc = "done",
                          ![i].outcome = IF written THEN "found" ELSE "fails"]
                   /\ workbook' =
                          IF written
                          THEN [ticker |-> WorkbookTicker(fetches[i].ticker,
                                                           app_stock),
                                expiry |-> fetches[i].expiry,
                                chain_of |-> app_stock,
                                price |-> current_price,
                                listing |-> expirations]
                          ELSE workbook
                   /\ after_queue' = Append(after_queue,
                          IF written THEN "created" ELSE "status")
    /\ UNCHANGED <<not_window_vars, app_stock, expirations, current_price,
                   expiry_combo, price_label, status_var,
                   ticker_var, expiry_var, raised>>

(* The callback of a finished generate, run by the main loop.              *)
CreatedCallback ==
    /\ after_queue # <<>> /\ Head(after_queue) = "created"
    /\ after_queue' = Tail(after_queue)
    /\ status_var' = "Created"
    /\ UNCHANGED <<not_window_vars, app_stock, expirations, current_price,
                   expiry_combo, price_label, fetches,
                   ticker_var, expiry_var, workbook, raised>>

NextWindow ==
    \/ TypeTicker \/ SelectExpiry
    \/ load_expirations \/ fetch \/ update_ui \/ StatusCallback
    \/ generate_excel \/ generate \/ CreatedCallback

SpecWindow == InitWindow /\ [][NextWindow]_vars

-----------------------------------------------------------------------------
(* Claims about the window and its buttons, checked under SpecWindow.      *)

LastThread == fetches[Len(fetches)]

(* The last click was a Load, its provider call raised or returned no      *)
(* expiration, and its thread and callback are over.                       *)
FailedLoadDone ==
    /\ WindowIdle
    /\ fetches # <<>>
    /\ LastThread.kind = "fetch"
    /\ LastThread.outcome \in {"empty", "fails"}

(* The handle, the list, the price and the drop-down are those of t.       *)
OfOneTicker(t) ==
    /\ app_stock = t
    /\ expirations = ListedFor(t)
    /\ current_price = QuotedFor(t)
    /\ expiry_combo = ListedFor(t)

NoDataLoaded == expirations = <<>> /\ expiry_combo = <<>> /\ expiry_var = ""

(* The ticker of the last load before thread i + 1 that found expirations. *)
RECURSIVE LastFound(_)
LastFound(i) ==
    IF i = 0 THEN ""
    ELSE IF fetches[i].kind = "fetch" /\ fetches[i].outcome = "found"
         THEN fetches[i].ticker
         ELSE LastFound(i - 1)

(* C21, as stated: after a load whose provider call fails or returns no    *)
(* expirations, the window holds no data, or the stock handle, the         *)
(* expirations, the price and the selectable expirations all belong to one *)
(* ticker.                                                                 *)
C21_FailedLoadLeavesOneTicker ==
    FailedLoadDone =>
        \/ NoDataLoaded
        \/ \E t \in {"CCJ", "XYZ"} : OfOneTicker(t)

(* C21, as the code has it: after such a load the stock handle is that of  *)
(* the ticker that failed, while the drop-down and the price shown are     *)
(* still those of the last load that found expirations; a load that        *)
(* returned none has emptied the list and taken the price, and one that    *)
(* raised right after a load that found expirations has left that load's   *)
(* list and price.                                                         *)
C21_FailedLoadReplacesHandleOnly ==
    FailedLoadDone =>
        /\ app_stock = LastThread.ticker
        /\ expiry_combo = ListedFor(LastFound(Len(fetches)))
        /\ price_label = QuotedFor(LastFound(Len(fetches)))
        /\ LastThread.outcome = "empty" =>
              /\ expirations = <<>>
              /\ current_price = QuotedFor(LastThread.ticker)
        /\ (/\ LastThread.outcome = "fails"
            /\ Len(fetches) > 1
            /\ fetches[Len(fetches) - 1].kind = "fetch"
            /\ fetches[Len(fetches) - 1].outcome = "found") =>
              /\ expirations = ListedFor(fetches[Len(fetches) - 1].ticker)
              /\ current_price = QuotedFor(fetches[Len(fetches) - 1].ticker)

(* C21: CCJ was loaded, then a load of XYZ raised: the handle is XYZ's,    *)
(* the list, the price and the selected expiration are CCJ's.              *)
C21_Witness ==
    /\ FailedLoadDone
    /\ LastThread.outcome = "fails"
    /\ app_stock = "XYZ"
    /\ expirations = ListedFor("CCJ")
    /\ current_price = QuotedFor("CCJ")
    /\ expiry_combo = ListedFor("CCJ")
    /\ expiry_var = "2026-12-18"

(* The last click was a Generate, its workbook is written and its callback *)
(* has run.                                                                *)
GenerateDone ==
    /\ WindowIdle
    /\ fetches # <<>>
    /\ LastThread.kind = "generate"
    /\ LastThread.outcome = "found"

(* C29, as stated: the ticker written into a workbook is the ticker whose  *)
(* chain fills it, and the price written is that ticker's price.           *)
C29_WorkbookOfOneTicker ==
    workbook # NoWorkbook =>
        /\ workbook.ticker = workbook.chain_of
        /\ workbook.price = QuotedFor(workbook.ticker)

(* C29, as the code has it: the workbook is named after the text of the    *)
(* ticker entry at the click, its chain is read through the stock handle   *)
(* for the selected expiration and its price is the price field; ticker,   *)
(* chain and price agree when the click follows a load of that very ticker *)
(* that found expirations.                                                 *)
C29_WorkbookNamedAfterEntry ==
    GenerateDone =>
        /\ workbook.ticker = LastThread.ticker
        /\ workbook.expiry = LastThread.expiry
        /\ workbook.chain_of = app_stock
        /\ workbook.price = current_price
        /\ workbook.listing = expirations
        /\ (/\ Len(fetches) > 1
            /\ fetches[Len(fetches) - 1].kind = "fetch"
            /\ fetches[Len(fetches) - 1].outcome = "found"
            /\ fetches[Len(fetches) - 1].ticker = LastThread.ticker) =>
              /\ workbook.ticker = workbook.chain_of
              /\ workbook.price = QuotedFor(workbook.ticker)

(* C29: CCJ was loaded, the entry changed to xyz and Generate clicked: the *)
(* workbook named XYZ holds the chain and the price of CCJ.                *)
C29_Witness ==
    /\ GenerateDone
    /\ workbook.ticker = "XYZ"
    /\ workbook.chain_of = "CCJ"
    /\ workbook.price = QuotedFor("CCJ")
    /\ status_var = "Created"

-----------------------------------------------------------------------------
(* SpecCalls: process_options_df and calculate_pnl called again and again, *)
(* on the same and on other arguments, while the session state changes     *)
(* between the calls.  Every call is recorded with its arguments, the      *)
(* session state it ran in, what it returned and what the table passed to  *)
(* it holds afterwards.                                                    *)

HeldPositions == {0, 2}

(* The session states the calls run in: a fresh one, and one with a call   *)
(* position and shares held.                                               *)
SessionInputs ==
    {<<EmptyBook, EmptyBook, 0>>,
     <<[k \in {100 * Scale} |-> [position |-> 2, entry |-> 2 * Scale]],
       EmptyBook, 100>>}

CallScenarios == {110 * Scale}

InitCalls ==
    /\ option_type \in Sides
    /\ current_price \in PriceInputs
    /\ time_to_expiry \in ExpiryTimes
    /\ records \in RawChains
    /\ \E inputs \in [1..Len(records) -> HeldPositions \X {None}] :
          df = WithInputs(process_options_df(records, current_price,
                                             time_to_expiry, option_type), inputs)
    /\ stock_scenario = 0 /\ days_to_scenario = 0 /\ iv_adjustment = 0
    /\ pnl = <<>>
    /\ sheet = NoSheet
    /\ sheet_tool = NoSheet /\ raised = {}
    /\ called = {}
    /\ IdlePricing
    /\ IdleFrontEnd /\ IdleDesktop
    /\ IdleWindow /\ IdlePage /\ IdleGate /\ IdleCli
    /\ results = {}
    /\ expirations = <<>>
    /\ calls_raw = <<>> /\ puts_raw = <<>>
    /\ calls_positions = EmptyBook /\ puts_positions = EmptyBook
    /\ stock_shares = 0 /\ stock_entry = 0
    /\ calls_pnl = <<>> /\ puts_pnl = <<>> /\ totals = NoTotals

(* What the functions could read of st.session_state.                      *)
SessionNow == <<calls_positions, puts_positions, stock_shares>>

(* The session state changes between two calls.                            *)
ChangeSession ==
    /\ \E session \in SessionInputs \ {SessionNow} :
          /\ calls_positions' = session[1]
          /\ puts_positions' = session[2]
          /\ stock_shares' = session[3]
    /\ UNCHANGED <<front_vars, pricing_vars, time_to_expiry, option_type,
                   called, current_price, calls_raw, puts_raw, expirations,
                   stock_entry, calls_pnl, puts_pnl, totals, scenario_vars,
                   harness_vars>>

(* A variant of PassedAfterCall for a function that writes its columns     *)
(* into the table it was given.                                            *)
PassedAfterCall_in_place(passed, returned) == returned

(* calculate_pnl: `df = df.copy()` comes first, the columns are written to *)
(* the copy and the copy is returned; the table passed stays as it was.    *)
PassedAfterCall(passed, returned) == passed

(* process_options_df called on the raw chain.                             *)
CallProcessOptionsDf ==
    /\ ~ChainRaises(records)
    /\ results' = results \cup
          {[fn |-> "process_options_df",
            args |-> <<records, current_price, time_to_expiry, option_type>>,
            session |-> SessionNow,
            returned |-> process_options_df(records, current_price,
                                            time_to_expiry, option_type),
            passed_after |-> records]}
    /\ called' = called \cup {"process_options_df"}
    /\ UNCHANGED <<frontend_vars, desktop_vars, window_vars, page_vars,
                   gate_vars, cli_vars, pricing_vars, time_to_expiry,
                   option_type, current_price, session_vars, scenario_vars,
                   harness_vars>>

(* calculate_pnl called on the table, with a scenario of the caller's.     *)
CallCalculatePnl ==
    /\ \E s \in CallScenarios, d \in {0, 30} :
          LET returned == calculate_pnl(df, s, option_type, d, 0)
          IN /\ stock_scenario' = s
             /\ days_to_scenario' = d
             /\ pnl' = returned
             /\ df' = PassedAfterCall(df, returned)
             /\ results' = results \cup
                   {[fn |-> "calculate_pnl",
                     args |-> <<df, s, option_type, d, 0>>,
                     session |-> SessionNow,
                     returned |-> returned,
                     passed_after |-> df']}
    /\ called' = called \cup {"pnl"}
    /\ UNCHANGED <<frontend_vars, desktop_vars, window_vars, page_vars,
                   gate_vars, cli_vars, pricing_vars, time_to_expiry,
                   option_type, current_price, session_vars, iv_adjustment,
                   records, sheet, sheet_tool, raised>>

NextCalls == ChangeSession \/ CallProcessOptionsDf \/ CallCalculatePnl

SpecCalls == InitCalls /\ [][NextCalls]_vars

-----------------------------------------------------------------------------
(* Claims about the two table functions, checked under SpecCalls.          *)

PnlColumns == {"ScenValue", "PremPaid", "PremRcvd", "Payout", "PnL"}

-----------------------------------------------------------------------------
(* SpecPage: the Streamlit page with its ticker field, the Load button,    *)
(* the expiration select box, the shares field and both position tables.   *)
(* Every user event runs the script once: the sidebar, the main content on *)
(* the chain of the session's ticker and the selected expiration, and the  *)
(* two loops that save the tables; a loop that saw a change asks for a     *)
(* rerun, which is part of the same event.                                 *)

(* What the user may type into the ticker field.                           *)
PageTexts == {"CCJ", "xyz", "NOPE"}

(* st.text_input(...).upper()                                              *)
Upper(text) == IF text = "xyz" THEN "XYZ" ELSE text

(* The positions the user types into the tables of the page.               *)
PagePositions == {0, 2}

PageQuote(k, bid, ask, iv) ==
    [strike |-> k * Scale, bid |-> bid, ask |-> ask, lastPrice |-> ask,
     volume |-> 10, openInterest |-> 20, impliedVolatility |-> iv]

(* get_options_chain: the records the provider holds for a ticker, an      *)
(* expiration and a side, by ascending strike.  XYZ lists the 70 strike in *)
(* both expirations, calls and puts; only CCJ's call has an implied        *)
(* volatility.                                                             *)
ChainFor(t, expiry, side) ==
    IF t = "CCJ"
    THEN (IF side = "CALL" THEN <<PageQuote(50, 2000, 3000, 250)>>
          ELSE <<PageQuote(50, 1000, 2000, 0)>>)
    ELSE IF expiry = "2026-12-18"
    THEN (IF side = "CALL"
          THEN <<PageQuote(70, 4000, 6000, 0), PageQuote(80, 1000, 2000, 0)>>
          ELSE <<PageQuote(70, 3000, 5000, 0)>>)
    ELSE (IF side = "CALL" THEN <<PageQuote(70, 6000, 8000, 0)>>
          ELSE <<PageQuote(70, 5000, 7000, 0)>>)

(* max(days_to_expiry / 365.0, 0.001) for the two expirations.             *)
TimeFor(expiry) == IF expiry = "2026-12-18" THEN 82 ELSE 160

InitPage ==
    /\ expirations = <<>>
    /\ calls_raw = <<>> /\ puts_raw = <<>>
    /\ calls_positions = EmptyBook /\ puts_positions = EmptyBook
    /\ stock_shares = 0 /\ stock_entry = 0
    /\ current_price = 0 /\ time_to_expiry = 0
    /\ stock_scenario = 0 /\ days_to_scenario = 0 /\ iv_adjustment = 0
    /\ calls_pnl = <<>> /\ puts_pnl = <<>> /\ totals = NoTotals
    /\ option_type = "CALL"
    /\ called = {}
    /\ IdlePricing
    /\ IdleFrontEnd /\ IdleDesktop
    /\ ticker_var = "CCJ" /\ expiry_var = "" /\ workbook = NoWorkbook
    /\ IdlePage /\ IdleGate /\ IdleCli /\ IdlePure
    /\ IdleHarness

(* The variables the page does not have.                                   *)
not_page_vars ==
    <<front, provider, step, produced, desktop_vars, expiry_var, workbook,
      gate_vars, cli_vars, pure_vars, pricing_vars, option_type, called,
      harness_vars>>

(* The loop that saves a table, run on a table the user did not touch.     *)
SettledBook(table, price, book) ==
    SavePositions(table, DisplayRange(table, price), 1, book)

(* The user types another symbol into the ticker field; the script runs on *)
(* the session state as it is.                                             *)
PageTypeTicker ==
    /\ \E text \in PageTexts \ {ticker_var} : ticker_var' = text
    /\ calls_positions' = SettledBook(calls_pnl, current_price, calls_positions)
    /\ puts_positions' = SettledBook(puts_pnl, current_price, puts_positions)
    /\ status_var' = ""
    /\ UNCHANGED <<not_page_vars, page_vars, calls_raw, puts_raw,
                   expirations, current_price, time_to_expiry, stock_shares,
                   stock_entry, scenario_vars>>
    /\ MainContent

(* A variant of BookAfterLoad that empties the book on every click.        *)
BookAfterLoad_always_reset(found, book) == EmptyBook

(* Load Expirations: the positions are reset when expirations were found.  *)
BookAfterLoad(found, book) == IF found THEN EmptyBook ELSE book

(* The Load Expirations button, and the run of the script it is part of.   *)
PageLoadExpirations ==
    LET ticker == Upper(ticker_var)
        dates  == ListedFor(ticker)
        price  == QuotedFor(ticker)
        found  == dates # <<>>
    IN /\ IF found
          THEN /\ expirations' = dates
               /\ current_price' = price
               /\ session_ticker' = ticker
               /\ stock_entry' = price
               /\ stock_shares' = 0
               /\ status_var' = "Found expirations"
               \* the select box keeps its choice while its options stay
               /\ selected_expiry' = IF expirations = dates
                                     THEN selected_expiry ELSE dates[1]
               /\ IF Loaded /\ current_price = price
                  THEN UNCHANGED scenario_vars
                  ELSE /\ stock_scenario' = price
                       /\ days_to_scenario' = 0
                       /\ iv_adjustment' = 0
          ELSE /\ status_var' = "No options found for this ticker"
               /\ UNCHANGED <<expirations, current_price, session_ticker,
                              stock_entry, stock_shares, selected_expiry,
                              scenario_vars>>
       /\ calls_raw' = ChainFor(session_ticker', selected_expiry', "CALL")
       /\ puts_raw' = ChainFor(session_ticker', selected_expiry', "PUT")
       /\ time_to_expiry' = TimeFor(selected_expiry')
       /\ \E cbook \in {BookAfterLoad(found, calls_positions)},
             pbook \in {BookAfterLoad(found, puts_positions)} :
             /\ calls_positions' =
                    SettledBook(RunCalls(calls_raw', current_price',
                                         time_to_expiry', cbook, stock_scenario',
                                         days_to_scenario', iv_adjustment'),
                                current_price', cbook)
             /\ puts_positions' =
                    SettledBook(RunPuts(puts_raw', current_price',
                                        time_to_expiry', pbook, stock_scenario',
                                        days_to_scenario', iv_adjustment'),
                                current_price', pbook)
       /\ reruns' = 0
       /\ last_edit' = NoEdit
       /\ ticker_var' = ticker_var
       /\ UNCHANGED not_page_vars
       /\ MainContent

(* A variant of BookAfterSelect that starts the new expiration without     *)
(* positions.                                                              *)
BookAfterSelect_reset(book) == EmptyBook

(* The select box stores the expiration picked and nothing else: the books *)
(* stay as they are.                                                       *)
BookAfterSelect(book) == book

(* The user picks another expiration in the select box.                    *)
PageSelectExpiry ==
    /\ Loaded
    /\ \E i \in 1..Len(expirations) :
          /\ expirations[i] # selected_expiry
          /\ selected_expiry' = expirations[i]
    /\ calls_raw' = ChainFor(session_ticker, selected_expiry', "CALL")
    /\ puts_raw' = ChainFor(session_ticker, selected_expiry', "PUT")
    /\ time_to_expiry' = TimeFor(selected_expiry')
    /\ calls_positions' =
           SettledBook(RunCalls(calls_raw', current_price, time_to_expiry',
                                BookAfterSelect(calls_positions),
                                stock_scenario, days_to_scenario,
                                iv_adjustment),
                       current_price, BookAfterSelect(calls_positions))
    /\ puts_positions' =
           SettledBook(RunPuts(puts_raw', current_price, time_to_expiry',
                               BookAfterSelect(puts_positions),
                               stock_scenario, days_to_scenario,
                               iv_adjustment),
                       current_price, BookAfterSelect(puts_positions))
    /\ reruns' = 0
    /\ last_edit' = NoEdit
    /\ status_var' = ""
    /\ UNCHANGED <<not_page_vars, ticker_var, session_ticker,
                   expirations, current_price, stock_shares, stock_entry,
                   scenario_vars>>
    /\ MainContent

(* The user edits a cell of the calls table: the loop saves the table and, *)
(* when it saw a change, the script reruns and the loop saves the table    *)
(* the rerun shows; reruns = 2 stands for a rerun asked for again.         *)
PageEditCalls ==
    /\ Loaded
    /\ \E i \in DisplayRange(calls_pnl, current_price), p \in PagePositions,
          e \in {None} \cup EntryInputs :
          \E edited \in {Edited(calls_pnl, i, p, e)} :
          \E book1 \in {SavePositions(edited, DisplayRange(calls_pnl, current_price),
                                      1, calls_positions)} :
          \E rerun \in {RunCalls(calls_raw, current_price, time_to_expiry, book1,
                                 stock_scenario, days_to_scenario,
                                 iv_adjustment)} :
          LET changed == SaveRequestsRerun(edited,
                             DisplayRange(calls_pnl, current_price), 1,
                             calls_positions)
              again   == SaveRequestsRerun(rerun,
                             DisplayRange(rerun, current_price), 1, book1)
          IN /\ edited # calls_pnl
             /\ calls_positions' = IF changed
                        THEN SettledBook(rerun, current_price, book1)
                        ELSE book1
             /\ reruns' = IF ~changed THEN 0 ELSE IF again THEN 2 ELSE 1
             /\ last_edit' = [side |-> "CALL", strike |-> edited[i].Strike,
                              position |-> p, entry |-> edited[i].Entry]
    /\ puts_positions' = SettledBook(puts_pnl, current_price, puts_positions)
    /\ status_var' = ""
    /\ UNCHANGED <<not_page_vars, ticker_var, session_ticker,
                   selected_expiry, calls_raw, puts_raw, expirations,
                   current_price, time_to_expiry, stock_shares, stock_entry,
                   scenario_vars>>
    /\ MainContent

(* The same for the puts table.                                            *)
PageEditPuts ==
    /\ Loaded
    /\ \E i \in DisplayRange(puts_pnl, current_price), p \in PagePositions,
          e \in {None} \cup EntryInputs :
          \E edited \in {Edited(puts_pnl, i, p, e)} :
          \E book1 \in {SavePositions(edited, DisplayRange(puts_pnl, current_price),
                                      1, puts_positions)} :
          \E rerun \in {RunPuts(puts_raw, current_price, time_to_expiry, book1,
                                 stock_scenario, days_to_scenario,
                                 iv_adjustment)} :
          LET changed == SaveRequestsRerun(edited,
                             DisplayRange(puts_pnl, current_price), 1,
                             puts_positions)
              again   == SaveRequestsRerun(rerun,
                             DisplayRange(rerun, current_price), 1, book1)
          IN /\ edited # puts_pnl
             /\ puts_positions' = IF changed
                       THEN SettledBook(rerun, current_price, book1)
                       ELSE book1
             /\ reruns' = IF ~changed THEN 0 ELSE IF again THEN 2 ELSE 1
             /\ last_edit' = [side |-> "PUT", strike |-> edited[i].Strike,
                              position |-> p, entry |-> edited[i].Entry]
    /\ calls_positions' = SettledBook(calls_pnl, current_price, calls_positions)
    /\ status_var' = ""
    /\ UNCHANGED <<not_page_vars, ticker_var, session_ticker,
                   selected_expiry, calls_raw, puts_raw, expirations,
                   current_price, time_to_expiry, stock_shares, stock_entry,
                   scenario_vars>>
    /\ MainContent

(* The user changes the number of shares.                                  *)
PageSetShares ==
    /\ Loaded
    /\ \E n \in ShareInputs \ {stock_shares} : stock_shares' = n
    /\ calls_positions' = SettledBook(calls_pnl, current_price, calls_positions)
    /\ puts_positions' = SettledBook(puts_pnl, current_price, puts_positions)
    /\ status_var' = ""
    /\ UNCHANGED <<not_page_vars, page_vars, ticker_var, calls_raw, puts_raw,
                   expirations, current_price, time_to_expiry, stock_entry,
                   scenario_vars>>
    /\ MainContent

NextPage ==
    \/ PageTypeTicker \/ PageLoadExpirations \/ PageSelectExpiry
    \/ PageSetShares
    \/ PageEditCalls \/ PageEditPuts

SpecPage == InitPage /\ [][NextPage]_vars

-----------------------------------------------------------------------------
(* Claims about the Streamlit page, checked under SpecPage.                *)

(* The run that has just ended was a click on Load Expirations.            *)
LoadFound == status_var = "Found expirations"
LoadFoundNone == status_var = "No options found for this ticker"

TableFollowsBook(table, book) ==
    \A i \in 1..Len(table) :
        IF table[i].Strike \in DOMAIN book
        THEN /\ table[i].Position = book[table[i].Strike].position
             /\ table[i].Entry = book[table[i].Strike].entry
        ELSE table[i].Position = 0

(* The step was an edit of a cell of that side's table.                    *)
EditOf(side) == last_edit'.side = side /\ status_var' = ""

(* Two books hold the same at every strike but k.                          *)
SameButAt(old, new, k) ==
    \A x \in (DOMAIN old \cup DOMAIN new) \ {k} :
        x \in DOMAIN old /\ x \in DOMAIN new /\ old[x] = new[x]

(* C23: the positions of calls and puts are kept in two books keyed by     *)
(* strike: an edit of the calls table changes no put position and an edit  *)
(* of the puts table no call position, the rows of each table carry the    *)
(* positions of their own side's book only, and a book changes only by an  *)
(* edit of its table, at the strike of the edited row, or by a Load        *)
(* Expirations that empties it.                                            *)
C23_BooksIndependent ==
    [][/\ TableFollowsBook(calls_pnl, calls_positions)'
       /\ TableFollowsBook(puts_pnl, puts_positions)'
       /\ (EditOf("CALL") /\ last_edit' # last_edit) =>
              puts_positions' = puts_positions
       /\ (EditOf("PUT") /\ last_edit' # last_edit) =>
              calls_positions' = calls_positions
       /\ calls_positions' # calls_positions =>
              \/ /\ EditOf("CALL")
                 /\ SameButAt(calls_positions, calls_positions',
                              last_edit'.strike)
              \/ LoadFound' /\ calls_positions' = EmptyBook
       /\ puts_positions' # puts_positions =>
              \/ /\ EditOf("PUT")
                 /\ SameButAt(puts_positions, puts_positions',
                              last_edit'.strike)
              \/ LoadFound' /\ puts_positions' = EmptyBook]_vars

(* C23: call positions are held at the 70 strike, which the puts list too, *)
(* and at the 80 strike, edited last: the call row of the 70 strike        *)
(* carries its position, the put row of that strike carries none.          *)
C23_Witness ==
    /\ last_edit.side = "CALL"
    /\ last_edit.strike = 80 * Scale
    /\ 70 * Scale \in DOMAIN calls_positions
    /\ 80 * Scale \in DOMAIN calls_positions
    /\ 70 * Scale \notin DOMAIN puts_positions
    /\ \E i \in 1..Len(calls_pnl) :
          calls_pnl[i].Strike = 70 * Scale /\ calls_pnl[i].Position = 2
    /\ \E i \in 1..Len(puts_pnl) :
          puts_pnl[i].Strike = 70 * Scale /\ puts_pnl[i].Position = 0

NoZeroPosition(book) == \A k \in DOMAIN book : book[k].position # 0

(* The book holds what the last edit of its table typed.                   *)
HoldsLastEdit(book) ==
    IF last_edit.position # 0
    THEN /\ last_edit.strike \in DOMAIN book
         /\ book[last_edit.strike] =
                [position |-> last_edit.position, entry |-> last_edit.entry]
    ELSE last_edit.strike \notin DOMAIN book

ExpirySelected ==
    /\ Loaded
    /\ selected_expiry' # selected_expiry
    /\ session_ticker' = session_ticker
    /\ status_var' = ""

NoPositionShown(table) == \A i \in 1..Len(table) : table[i].Position = 0

(* C27, as stated: once the user has selected another expiration, no       *)
(* contract of the new chain carries a position or an entry, all of which  *)
(* were entered under an expiration selected before.                       *)
C27_NewExpirationStartsFlat ==
    [][ExpirySelected =>
           /\ NoPositionShown(calls_pnl')
           /\ NoPositionShown(puts_pnl')]_vars

(* C27, as the code has it: the choice of another expiration leaves both   *)
(* books as they were, and every contract of the new chain whose strike a  *)
(* book holds carries that book's position and entry; only a load that     *)
(* finds expirations starts without positions.                             *)
C27_PositionsFollowStrike ==
    [][/\ ExpirySelected =>
              /\ calls_positions' = calls_positions
              /\ puts_positions' = puts_positions
              /\ calls_raw' = ChainFor(session_ticker, selected_expiry', "CALL")
              /\ puts_raw' = ChainFor(session_ticker, selected_expiry', "PUT")
              /\ TableFollowsBook(calls_pnl, calls_positions)'
              /\ TableFollowsBook(puts_pnl, puts_positions)'
       /\ LoadFound' =>
              /\ NoPositionShown(calls_pnl')
              /\ NoPositionShown(puts_pnl')]_vars

(* C27: a call position was entered at the 70 strike of XYZ's December     *)
(* expiration at its mid of 5.00; January is selected now, and its 70 call *)
(* carries that position and that entry.                                   *)
C27_Witness ==
    /\ session_ticker = "XYZ"
    /\ selected_expiry = "2027-01-15"
    /\ last_edit = NoEdit
    /\ calls_raw = ChainFor("XYZ", "2027-01-15", "CALL")
    /\ \E i \in 1..Len(calls_pnl) :
          /\ calls_pnl[i].Strike = 70 * Scale
          /\ calls_pnl[i].Position = 2
          /\ calls_pnl[i].Entry = 5 * Scale
          /\ calls_pnl[i].Mid = 7 * Scale

-----------------------------------------------------------------------------
(* SpecSave: the loop that saves the calls table, pass after pass.  The    *)
(* user edits a cell; the script runs and the loop saves the edited table; *)
(* when the loop asks for a rerun, the script runs again and the loop      *)
(* saves the table of the editor again.  The chains may list a strike      *)
(* twice and may hold a quote without any price.                           *)

MaxPasses == 2

SaveQuotes ==
    {PageQuote(70, 4000, 6000, 0), PageQuote(80, 1000, 2000, 0), QuoteMissing}

(* Chains by ascending strike, a strike listed twice included.             *)
SaveChains ==
    {c \in UNION {[1..n -> SaveQuotes] : n \in 1..2} :
        \A i \in 1..(Len(c) - 1) : c[i].strike <= c[i + 1].strike}

InitSave ==
    /\ calls_raw \in SaveChains
    /\ puts_raw = <<>>
    /\ current_price = 70 * Scale /\ time_to_expiry = 82
    /\ stock_scenario = 70 * Scale /\ days_to_scenario = 0 /\ iv_adjustment = 0
    /\ expirations = <<"2026-12-18">>
    /\ calls_positions = EmptyBook /\ puts_positions = EmptyBook
    /\ stock_shares = 0 /\ stock_entry = 70 * Scale
    /\ calls_pnl = RunCalls(calls_raw, current_price, time_to_expiry,
                            EmptyBook, stock_scenario, 0, 0)
    /\ puts_pnl = <<>> /\ totals = NoTotals
    /\ df = calls_pnl
    /\ records = <<>> /\ pnl = <<>> /\ sheet = NoSheet
    /\ sheet_tool = NoSheet /\ raised = {}
    /\ option_type = "CALL"
    /\ called = {}
    /\ IdlePricing
    /\ IdleFrontEnd /\ IdleDesktop
    /\ IdleWindow /\ IdlePage /\ IdleGate /\ IdleCli /\ IdlePure

(* The variables the save loop does not touch.                             *)
not_save_vars ==
    <<front, provider, produced, status_var, desktop_vars, window_vars,
      session_ticker, selected_expiry, last_edit, gate_vars, cli_vars,
      pricing_vars, time_to_expiry, option_type, called, current_price,
      calls_raw, puts_raw, expirations, puts_positions, stock_shares,
      stock_entry, puts_pnl, totals, scenario_vars, records, pnl, sheet,
      sheet_tool, raised>>

AllRows(table) == 1..Len(table)

(* The user types a position into a row of the table shown.                *)
EditCell ==
    /\ step = "start"
    /\ \E i \in AllRows(calls_pnl), p \in Positions :
          /\ p # calls_pnl[i].Position
          /\ df' = Edited(calls_pnl, i, p, None)
    /\ step' = "edited"
    /\ reruns' = 0
    /\ results' = {}
    /\ UNCHANGED <<not_save_vars, calls_positions, calls_pnl>>

(* One run of the script on the table of the editor: the loop saves it,    *)
(* and st.rerun() is called when it saw a change.                          *)
SavePass ==
    /\ step = "edited"
    /\ Cardinality(results) < MaxPasses
    /\ \E book \in {SavePositions(df, AllRows(df), 1, calls_positions)},
          changed \in {SaveRequestsRerun(df, AllRows(df), 1, calls_positions)} :
          /\ calls_positions' = book
          /\ results' = results \cup
                {[fn |-> "save", pass |-> Cardinality(results) + 1,
                  table |-> df, before |-> calls_positions,
                  after |-> book, changed |-> changed]}
          /\ reruns' = IF changed THEN reruns + 1 ELSE reruns
          /\ calls_pnl' = RunCalls(calls_raw, current_price, time_to_expiry,
                                   book, stock_scenario, days_to_scenario,
                                   iv_adjustment)
          /\ step' = IF changed THEN "edited" ELSE "start"
          /\ df' = IF changed THEN df ELSE calls_pnl'
    /\ UNCHANGED not_save_vars

NextSave == EditCell \/ SavePass

SpecSave == InitSave /\ [][NextSave]_vars

-----------------------------------------------------------------------------
(* Claims about the save loop, checked under SpecSave.                     *)

DistinctStrikes(table) ==
    \A i, j \in 1..Len(table) : table[i].Strike = table[j].Strike => i = j

NumericEntries(table) ==
    \A i \in 1..Len(table) : table[i].Position # 0 => table[i].Entry # NaN

SecondPasses == {r \in results : r.fn = "save" /\ r.pass >= 2}

(* C26, as stated: for every chain, one that lists a strike twice          *)
(* included, and every edited table, a second pass of the save loop over   *)
(* the same table leaves the book as the first pass left it and asks for   *)
(* no rerun, so that one edit causes one rerun at most.                    *)
C26_SecondPassIsQuiet ==
    /\ \A r \in SecondPasses : r.after = r.before /\ ~r.changed
    /\ reruns <= 1

(* C26, as the code has it: a second pass over the same table leaves the   *)
(* book as the first pass left it; it asks for no rerun, and the edit has   *)
(* caused one rerun at most, when the table lists every strike once and    *)
(* every row with a position has a number for its entry.                   *)
C26_SecondPassKeepsBook ==
    /\ \A r \in SecondPasses :
          /\ r.after = r.before
          /\ (DistinctStrikes(r.table) /\ NumericEntries(r.table)) => ~r.changed
    /\ (step = "edited" /\ DistinctStrikes(df) /\ NumericEntries(df)) =>
          reruns <= 1

(* C26: the table lists the 70 strike twice, the first row with position 2 *)
(* and the second with 0: the second pass left the book empty as the first *)
(* did, and asked for a rerun again.                                       *)
C26_Witness ==
    \E r \in SecondPasses :
        /\ Len(r.table) = 2
        /\ r.table[1].Strike = 70 * Scale /\ r.table[2].Strike = 70 * Scale
        /\ r.table[1].Position = 2 /\ r.table[2].Position = 0
        /\ r.before = EmptyBook /\ r.after = EmptyBook
        /\ r.changed
        /\ reruns = 2

-----------------------------------------------------------------------------
(* SpecTool: one run of options_tool.py from the command line.  main lists *)
(* the expirations, selects one from the argument or from what the user    *)
(* types at the prompt, and get_options_data lists the expirations again,  *)
(* selects again and fetches the chain.                                    *)

ToolDates == <<"2026-12-18", "2027-01-15">>

(* What stock.options answers: it raises, or returns a tuple of dates.     *)
Listings ==
    {[fails |-> TRUE, dates |-> <<>>]}
        \cup {[fails |-> FALSE, dates |-> d] :
                 d \in {<<>>, <<"2026-12-18">>, ToolDates, <<"2027-01-15">>}}

(* sys.argv[2]; "" stands for None.                                        *)
ArgvExpiries == {"", "2026-12-18", "2027-01-15", "2030-01-01"}

(* What the user types at the prompt, stripped; "^2" stands for the        *)
(* superscript two (U+00B2), and "<EOF>" for standard input at its end.    *)
Choices ==
    {"", "0", "1", "2", "3", "2027-01-15", "2030-01-01", "abc", "^2", "<EOF>"}

(* input() raises EOFError when standard input has ended.                  *)
InputRaises(c) == c = "<EOF>"

(* str.isdigit(): true of the superscript two as well.                     *)
IsDigit(c) == c \in {"0", "1", "2", "3", "^2"}

(* int(choice) raises ValueError on a digit character that is no decimal   *)
(* digit.                                                                  *)
IntRaises(c) == c = "^2"

(* The prompt ends the run with an exception.                              *)
ChoiceRaises(c) == InputRaises(c) \/ (IsDigit(c) /\ IntRaises(c))

IntOf(c) == IF c = "0" THEN 0 ELSE IF c = "1" THEN 1 ELSE IF c = "2" THEN 2 ELSE 3

Listed(date, dates) == \E i \in 1..Len(dates) : dates[i] = date

(* A variant of ChoiceIndex that takes the number typed as the index.      *)
ChoiceIndex_unshifted(c) == IntOf(c)

(* idx = int(choice) - 1                                                   *)
ChoiceIndex(c) == IntOf(c) - 1

(* main: whether the prompt is shown.                                      *)
Prompted(expiry, dates) == ~(expiry # "" /\ Listed(expiry, dates))

(* main: the expiration selected from the argument and the choice.         *)
SelectedExpiry(expiry, c, dates) ==
    IF ~Prompted(expiry, dates) THEN expiry
    ELSE IF c = "" THEN dates[1]
    ELSE IF IsDigit(c)
         THEN (IF 0 <= ChoiceIndex(c) /\ ChoiceIndex(c) < Len(dates)
               THEN dates[ChoiceIndex(c) + 1] ELSE dates[1])
    ELSE IF Listed(c, dates) THEN c
    ELSE dates[1]

(* get_options_data: the expiration whose chain is fetched.                *)
DataExpiry(expiry_date, dates) ==
    IF expiry_date # "" /\ Listed(expiry_date, dates) THEN expiry_date
    ELSE dates[1]

InitTool ==
    /\ front = "tool"
    /\ \E first \in Listings :
          provider \in {[first |-> first, second |-> second] :
                           second \in {first, [fails |-> TRUE, dates |-> <<>>],
                                       [fails |-> FALSE, dates |-> <<"2027-01-15">>]}}
    /\ argv_expiry \in ArgvExpiries
    /\ choice \in Choices
    /\ fetched_expiry = ""
    /\ selected_expiry = ""
    /\ step = "start"
    /\ produced = {}
    /\ status_var = ""
    /\ expirations = <<>>
    /\ session_ticker = "" /\ reruns = 0 /\ last_edit = NoEdit
    /\ IdleDesktop /\ IdleWindow /\ IdleGate /\ IdlePure
    /\ option_type = "CALL" /\ time_to_expiry = 0 /\ current_price = 0
    /\ called = {}
    /\ stock_scenario = 0 /\ days_to_scenario = 0 /\ iv_adjustment = 0
    /\ calls_raw = <<>> /\ puts_raw = <<>>
    /\ calls_positions = EmptyBook /\ puts_positions = EmptyBook
    /\ stock_shares = 0 /\ stock_entry = 0
    /\ calls_pnl = <<>> /\ puts_pnl = <<>> /\ totals = NoTotals
    /\ IdlePricing
    /\ IdleHarness

(* The variables the run of the tool does not touch.                       *)
not_tool_vars ==
    <<front, provider, produced, desktop_vars, window_vars, session_ticker,
      reruns, last_edit, gate_vars, pure_vars, argv_expiry, choice,
      pricing_vars, time_to_expiry, option_type, called, current_price,
      calls_raw, puts_raw, calls_positions, puts_positions, stock_shares,
      stock_entry, calls_pnl, puts_pnl, totals, scenario_vars, records, df,
      pnl, sheet, sheet_tool>>

(* main: expirations = stock.options, and the two early returns.           *)
ListExpirations ==
    /\ step = "start"
    /\ IF provider.first.fails
       THEN /\ status_var' = "Error" /\ step' = "done"
            /\ expirations' = expirations
       ELSE IF provider.first.dates = <<>>
       THEN /\ status_var' = "No options available" /\ step' = "done"
            /\ expirations' = expirations
       ELSE /\ status_var' = status_var /\ step' = "listed"
            /\ expirations' = provider.first.dates
    /\ UNCHANGED <<not_tool_vars, selected_expiry, fetched_expiry, raised>>

(* main: the selection, with the prompt when the argument is not listed;   *)
(* input() and int(choice) may raise, which ends the run.                  *)
SelectExpiration ==
    /\ step = "listed"
    /\ IF Prompted(argv_expiry, expirations) /\ ChoiceRaises(choice)
       THEN /\ raised' = raised \cup {IF InputRaises(choice) THEN "EOFError"
                                      ELSE "ValueError"}
            /\ step' = "done"
            /\ selected_expiry' = selected_expiry
       ELSE /\ selected_expiry' =
                   SelectedExpiry(argv_expiry, choice, expirations)
            /\ step' = "selected"
            /\ raised' = raised
    /\ UNCHANGED <<not_tool_vars, expirations, fetched_expiry, status_var>>

(* get_options_data(ticker, selected_expiry) and the test of its result.   *)
GetOptionsData ==
    /\ step = "selected"
    /\ step' = "done"
    /\ IF provider.second.fails \/ provider.second.dates = <<>>
       THEN /\ fetched_expiry' = fetched_expiry
            /\ status_var' = "No options data retrieved."
       ELSE /\ fetched_expiry' = DataExpiry(selected_expiry,
                                            provider.second.dates)
            /\ status_var' = "Excel file created"
    /\ UNCHANGED <<not_tool_vars, expirations, selected_expiry, raised>>

NextTool == ListExpirations \/ SelectExpiration \/ GetOptionsData

SpecTool == InitTool /\ [][NextTool]_vars

-----------------------------------------------------------------------------
(* Claims about the command line tool, checked under SpecTool.             *)

ToolDone == front = "tool" /\ step = "done"

(* Both calls of stock.options returned the same dates, at least one.      *)
StableListing ==
    /\ ~provider.first.fails
    /\ provider.first.dates # <<>>
    /\ provider.second = provider.first

FirstListed == provider.first.dates[1]

(* The prompt was answered with a listed date or with a number in range.   *)
RecognisedChoice ==
    \/ Listed(choice, provider.first.dates)
    \/ choice \in {"1", "2", "3"} /\ IntOf(choice) <= Len(provider.first.dates)

ChosenByUser ==
    IF Listed(choice, provider.first.dates) THEN choice
    ELSE provider.first.dates[IntOf(choice)]

(* C28, as stated: the expiration whose chain is fetched is a date of the  *)
(* provider's list: the date of the argument when it is listed, otherwise  *)
(* what the user chose at the prompt, and the first date when the choice   *)
(* is empty, a number out of range or any string not recognised; with an   *)
(* empty list no chain is fetched.                                         *)
C28_FetchedIsListedOrFirst ==
    /\ fetched_expiry # "" => Listed(fetched_expiry, provider.second.dates)
    /\ (ToolDone /\ StableListing) =>
          fetched_expiry =
              IF argv_expiry # "" /\ Listed(argv_expiry, provider.first.dates)
              THEN argv_expiry
              ELSE IF RecognisedChoice THEN ChosenByUser
              ELSE FirstListed
    /\ (provider.first.fails \/ provider.first.dates = <<>>) =>
          fetched_expiry = ""

(* C28, as the code has it: the same, except when the prompt finds         *)
(* standard input at its end or is answered with digit characters that     *)
(* int() does not parse: the run ends with an exception before any chain   *)
(* is fetched.                                                             *)
C28_FetchedIsListedOrFirstOrRaises ==
    /\ fetched_expiry # "" => Listed(fetched_expiry, provider.second.dates)
    /\ (ToolDone /\ StableListing) =>
          IF Prompted(argv_expiry, provider.first.dates) /\ ChoiceRaises(choice)
          THEN fetched_expiry = "" /\ raised # {}
          ELSE fetched_expiry =
                  IF argv_expiry # ""
                     /\ Listed(argv_expiry, provider.first.dates)
                  THEN argv_expiry
                  ELSE IF RecognisedChoice THEN ChosenByUser
                  ELSE FirstListed
    /\ (provider.first.fails \/ provider.first.dates = <<>>) =>
          fetched_expiry = ""

(* C28: the argument names a date that is not listed, the user typed the   *)
(* superscript two at the prompt, and the run has ended without a chain.   *)
C28_Witness ==
    /\ ToolDone /\ StableListing
    /\ argv_expiry = "2030-01-01"
    /\ choice = "^2"
    /\ provider.first.dates = ToolDates
    /\ fetched_expiry = ""
    /\ "ValueError" \in raised


-----------------------------------------------------------------------------
(* SpecGate: the password gate at the top of the page script. Each event   *)
(* of a session (opening the page, typing in the password box, a click on  *)
(* Login, any other interaction) runs the script from the top, and the     *)
(* script shows the content only when check_password returns True.         *)

(* The passwords the secrets may hold: none, the empty one, and a proper   *)
(* one.                                                                    *)
Secrets ==
    {NoPassword, [configured |-> TRUE, value |-> ""],
     [configured |-> TRUE, value |-> "pw"]}

(* What a user may type in the password box.                               *)
EnteredTexts == {"", "pw", "PW", "x"}

InitGate ==
    /\ front = "gate"
    /\ password \in Secrets
    /\ authenticated = [s \in Sessions |-> FALSE]
    /\ password_input = [s \in Sessions |-> ""]
    /\ screen = [s \in Sessions |-> ""]
    /\ provider = NoProvider
    /\ step = "start"
    /\ produced = {}
    /\ status_var = ""
    /\ expirations = <<>>
    /\ IdleDesktop /\ IdleWindow /\ IdlePage /\ IdleCli /\ IdlePure
    /\ option_type = "CALL" /\ time_to_expiry = 0 /\ current_price = 0
    /\ called = {}
    /\ stock_scenario = 0 /\ days_to_scenario = 0 /\ iv_adjustment = 0
    /\ calls_raw = <<>> /\ puts_raw = <<>>
    /\ calls_positions = EmptyBook /\ puts_positions = EmptyBook
    /\ stock_shares = 0 /\ stock_entry = 0
    /\ calls_pnl = <<>> /\ puts_pnl = <<>> /\ totals = NoTotals
    /\ IdlePricing
    /\ IdleHarness

(* The variables the gate does not touch.                                  *)
not_gate_vars ==
    <<frontend_vars, desktop_vars, window_vars, page_vars, cli_vars,
      pure_vars, pricing_vars, time_to_expiry, option_type, called,
      current_price, session_vars, scenario_vars, harness_vars>>

(* password == correct_password, as any() would have it.                   *)
PasswordMatches_any(entered, correct) == TRUE

(* password == correct_password                                            *)
PasswordMatches(entered, correct) == entered = correct

(* check_password(), for a run in which Login was clicked or not: the new  *)
(* authenticated flag and what the run displays. A successful login ends   *)
(* in st.rerun(), whose run finds the flag set and returns True.           *)
check_password(flag, secret, entered, clicked) ==
    IF flag THEN [authenticated |-> TRUE, screen |-> "content"]
    ELSE IF ~secret.configured
    THEN [authenticated |-> flag, screen |-> "content"]
    ELSE IF ~clicked THEN [authenticated |-> flag, screen |-> "login"]
    ELSE IF PasswordMatches(entered, secret.value)
    THEN [authenticated |-> TRUE, screen |-> "content"]
    ELSE [authenticated |-> flag, screen |-> "Incorrect password"]

(* The login form is on the screen of the session.                         *)
LoginShown(s) == screen[s] \in {"login", "Incorrect password"}

(* One run of the script for session s; the password box keeps its text    *)
(* only while a run draws it.                                              *)
RunScript(s, entered, clicked) ==
    \E out \in {check_password(authenticated[s], password, entered, clicked)} :
        /\ authenticated' = [authenticated EXCEPT ![s] = out.authenticated]
        /\ screen' = [screen EXCEPT ![s] = out.screen]
        /\ password_input' =
              [password_input EXCEPT
                  ![s] = IF out.screen = "content" THEN "" ELSE entered]
        /\ UNCHANGED <<password, not_gate_vars>>

(* The page is opened, or a widget of the content is used.                 *)
Rerun(s) ==
    /\ screen[s] \in {"", "content"}
    /\ RunScript(s, password_input[s], FALSE)

(* The user changes the text of the password box.                          *)
TypePassword(s) ==
    /\ LoginShown(s)
    /\ \E text \in EnteredTexts \ {password_input[s]} :
          RunScript(s, text, FALSE)

(* A click on Login.                                                       *)
Login(s) ==
    /\ LoginShown(s)
    /\ RunScript(s, password_input[s], TRUE)

NextGate ==
    \E s \in Sessions : Rerun(s) \/ TypePassword(s) \/ Login(s)

SpecGate == InitGate /\ [][NextGate]_vars

(* The content ran in the last run of session s.                           *)
ContentShown(s) == screen[s] = "content"

(* C30: with a password configured the content runs only for a session     *)
(* whose authenticated flag is true, and with none configured every run    *)
(* reaches the content.                                                    *)
GateGuardsContent ==
    \A s \in Sessions :
        /\ password.configured /\ ContentShown(s) => authenticated[s]
        /\ ~password.configured /\ screen[s] # "" => ContentShown(s)

(* C30: the flag of a session becomes true only in a step in which the     *)
(* login form was shown with the configured password entered, and a flag   *)
(* that is true stays true.                                                *)
FlagSetOnlyByLogin ==
    \A s \in Sessions :
        /\ authenticated[s] => authenticated'[s]
        /\ ~authenticated[s] /\ authenticated'[s] =>
              /\ password.configured
              /\ LoginShown(s)
              /\ password_input[s] = password.value
              /\ screen'[s] = "content"

(* C30: the password gate. The content is executed only behind a true      *)
(* authenticated flag when a password is configured, the flag is set only  *)
(* by a Login with the configured password entered and never cleared, and  *)
(* without a configured password every run proceeds to the content.        *)
C30_PasswordGate ==
    [][GateGuardsContent /\ GateGuardsContent' /\ FlagSetOnlyByLogin]_vars

(* C30 witness: with the password "pw" configured, one session logged in   *)
(* with it and sees the content while the other, which entered a wrong     *)
(* password, sees the error and no content.                                *)
C30_Witness ==
    /\ front = "gate"
    /\ password = [configured |-> TRUE, value |-> "pw"]
    /\ authenticated[1] /\ ContentShown(1)
    /\ ~authenticated[2] /\ screen[2] = "Incorrect password"
    /\ password_input[2] = "PW"

=============================================================================
